---------------------------- MODULE Spec2Model ----------------------------
(***************************************************************************)
(* TerminalPulse server: the ANSI/SGR parser of src/server/ansi_parser.py, *)
(* the keystroke sink of src/server/tmux_bridge.py and the notification    *)
(* script src/server/notify_event.py.                                      *)
(*                                                                         *)
(* A Python str is modelled as a sequence of one-character strings; the    *)
(* control characters are named "ESC" (0x1b), "BEL" (0x07) and "LF"        *)
(* (0x0a).  Python's None is the value None below, which is no str.        *)
(***************************************************************************)
EXTENDS Integers, Sequences, FiniteSets, TLC

ESC == "ESC"
BEL == "BEL"
LF  == "LF"

None == <<"None">>

Digits == {"0", "1", "2", "3", "4", "5", "6", "7", "8", "9"}

DigitVal(c) ==
    CASE c = "0" -> 0 [] c = "1" -> 1 [] c = "2" -> 2 [] c = "3" -> 3
      [] c = "4" -> 4 [] c = "5" -> 5 [] c = "6" -> 6 [] c = "7" -> 7
      [] c = "8" -> 8 [] c = "9" -> 9

(***************************************************************************)
(* Regular expressions (ansi_parser.py lines 14-15), matched the way       *)
(* Python's re does: leftmost, greedy, non-overlapping.                    *)
(***************************************************************************)

\* the final bytes [A-HJKSTfhln] of a cursor/display CSI sequence
CsiFinals == {"A", "B", "C", "D", "E", "F", "G", "H",
              "J", "K", "S", "T", "f", "h", "l", "n"}

\* the identifiers [AB012] of a charset designation
CharsetIds == {"A", "B", "0", "1", "2"}

\* [0-9;]* from position i: the first position not in the class
RECURSIVE SkipParams(_, _)
SkipParams(s, i) ==
    IF i <= Len(s) /\ s[i] \in Digits \cup {";"}
    THEN SkipParams(s, i + 1)
    ELSE i

\* [^\x07\x1b]* from position i: the first position that is BEL, ESC or the end
RECURSIVE SkipOscBody(_, _)
SkipOscBody(s, i) ==
    IF i <= Len(s) /\ s[i] \notin {BEL, ESC}
    THEN SkipOscBody(s, i + 1)
    ELSE i

\* \x1b\][^\x07\x1b]*(?:\x07|\x1b\\) at position i: last position of the match, or 0
MatchOsc(s, i) ==
    IF i + 1 <= Len(s) /\ s[i] = ESC /\ s[i + 1] = "]"
    THEN LET j == SkipOscBody(s, i + 2)
         IN  IF j <= Len(s) /\ s[j] = BEL THEN j
             ELSE IF j + 1 <= Len(s) /\ s[j] = ESC /\ s[j + 1] = "\\" THEN j + 1
             ELSE 0
    ELSE 0

\* \x1b\[[0-9;]*[A-HJKSTfhln] at position i: last position of the match, or 0
MatchCsi(s, i) ==
    IF i + 1 <= Len(s) /\ s[i] = ESC /\ s[i + 1] = "["
    THEN LET j == SkipParams(s, i + 2)
         IN  IF j <= Len(s) /\ s[j] \in CsiFinals THEN j ELSE 0
    ELSE 0

\* \x1b\([AB012] at position i: last position of the match, or 0
MatchCharset(s, i) ==
    IF i + 2 <= Len(s) /\ s[i] = ESC /\ s[i + 1] = "(" /\ s[i + 2] \in CharsetIds
    THEN i + 2
    ELSE 0

\* _STRIP_RE at position i: the alternatives in the order of the pattern
STRIP_RE_match(s, i) ==
    IF MatchOsc(s, i) > 0 THEN MatchOsc(s, i)
    ELSE IF MatchCsi(s, i) > 0 THEN MatchCsi(s, i)
    ELSE MatchCharset(s, i)

\* _ESC_RE, \x1b\[[0-9;]*m, at position i: last position of the match, or 0
ESC_RE_match(s, i) ==
    IF i + 1 <= Len(s) /\ s[i] = ESC /\ s[i + 1] = "["
    THEN LET j == SkipParams(s, i + 2)
         IN  IF j <= Len(s) /\ s[j] = "m" THEN j ELSE 0
    ELSE 0

\* _STRIP_RE.sub("", s) from position i: one left-to-right pass
RECURSIVE StripFrom(_, _)
StripFrom(s, i) ==
    IF i > Len(s) THEN <<>>
    ELSE LET e == STRIP_RE_match(s, i)
         IN  IF e > 0 THEN StripFrom(s, e + 1)
             ELSE <<s[i]>> \o StripFrom(s, i + 1)

STRIP_RE_sub(s) == StripFrom(s, 1)

\* _ESC_RE.split(s) from position i, cur the literal text gathered so far:
\* [text, sgr, text, ..., text], the texts possibly empty
RECURSIVE SplitFrom(_, _, _)
SplitFrom(s, i, cur) ==
    IF i > Len(s) THEN <<cur>>
    ELSE LET e == ESC_RE_match(s, i)
         IN  IF e > 0
             THEN <<cur, SubSeq(s, i, e)>> \o SplitFrom(s, e + 1, <<>>)
             ELSE SplitFrom(s, i + 1, Append(cur, s[i]))

ESC_RE_split(s) == SplitFrom(s, 1, <<>>)

\* str.split(sep) for a one-character separator
RECURSIVE StrSplitFrom(_, _, _, _)
StrSplitFrom(s, sep, i, cur) ==
    IF i > Len(s) THEN <<cur>>
    ELSE IF s[i] = sep
         THEN <<cur>> \o StrSplitFrom(s, sep, i + 1, <<>>)
         ELSE StrSplitFrom(s, sep, i + 1, Append(cur, s[i]))

\* a split that drops a trailing empty piece, as str.splitlines does
StrSplit_DropTrailing(s, sep) ==
    LET all == StrSplitFrom(s, sep, 1, <<>>)
    IN  IF all[Len(all)] = <<>> THEN SubSeq(all, 1, Len(all) - 1) ELSE all

StrSplit(s, sep) == StrSplitFrom(s, sep, 1, <<>>)

\* str.startswith("\x1b[")
StartsWithCsi(s) == Len(s) >= 2 /\ s[1] = ESC /\ s[2] = "["

(***************************************************************************)
(* Color tables (ansi_parser.py lines 17-35).                              *)
(***************************************************************************)

black     == <<"b", "l", "a", "c", "k">>
red       == <<"r", "e", "d">>
green     == <<"g", "r", "e", "e", "n">>
yellow    == <<"y", "e", "l", "l", "o", "w">>
blue      == <<"b", "l", "u", "e">>
magenta   == <<"m", "a", "g", "e", "n", "t", "a">>
cyan      == <<"c", "y", "a", "n">>
white     == <<"w", "h", "i", "t", "e">>
brBlack   == <<"b", "r", "B", "l", "a", "c", "k">>
brRed     == <<"b", "r", "R", "e", "d">>
brGreen   == <<"b", "r", "G", "r", "e", "e", "n">>
brYellow  == <<"b", "r", "Y", "e", "l", "l", "o", "w">>
brBlue    == <<"b", "r", "B", "l", "u", "e">>
brMagenta == <<"b", "r", "M", "a", "g", "e", "n", "t", "a">>
brCyan    == <<"b", "r", "C", "y", "a", "n">>
brWhite   == <<"b", "r", "W", "h", "i", "t", "e">>

\* the reverse-video sentinels "_defBg" and "_defFg" of to_run
defBg == <<"_", "d", "e", "f", "B", "g">>
defFg == <<"_", "d", "e", "f", "F", "g">>

BASIC_FG ==
    (30 :> black) @@ (31 :> red) @@ (32 :> green) @@ (33 :> yellow) @@
    (34 :> blue) @@ (35 :> magenta) @@ (36 :> cyan) @@ (37 :> white) @@
    (90 :> brBlack) @@ (91 :> brRed) @@ (92 :> brGreen) @@ (93 :> brYellow) @@
    (94 :> brBlue) @@ (95 :> brMagenta) @@ (96 :> brCyan) @@ (97 :> brWhite)

BASIC_BG ==
    (40 :> black) @@ (41 :> red) @@ (42 :> green) @@ (43 :> yellow) @@
    (44 :> blue) @@ (45 :> magenta) @@ (46 :> cyan) @@ (47 :> white) @@
    (100 :> brBlack) @@ (101 :> brRed) @@ (102 :> brGreen) @@ (103 :> brYellow) @@
    (104 :> brBlue) @@ (105 :> brMagenta) @@ (106 :> brCyan) @@ (107 :> brWhite)

\* indexed from 1 here, from 0 in the source
COLOR_256_NAMES ==
    <<black, red, green, yellow, blue, magenta, cyan, white,
      brBlack, brRed, brGreen, brYellow, brBlue, brMagenta, brCyan, brWhite>>

(***************************************************************************)
(* The format specification 02x of the f-strings in _color_256 and         *)
(* _apply_sgr: lowercase hexadecimal, sign first, zero-padded to width 2.  *)
(***************************************************************************)

HexDigit(d) ==
    CASE d = 0 -> "0" [] d = 1 -> "1" [] d = 2 -> "2" [] d = 3 -> "3"
      [] d = 4 -> "4" [] d = 5 -> "5" [] d = 6 -> "6" [] d = 7 -> "7"
      [] d = 8 -> "8" [] d = 9 -> "9" [] d = 10 -> "a" [] d = 11 -> "b"
      [] d = 12 -> "c" [] d = 13 -> "d" [] d = 14 -> "e" [] d = 15 -> "f"

RECURSIVE HexStr(_)
HexStr(v) ==
    IF v < 16 THEN <<HexDigit(v)>>
    ELSE HexStr(v \div 16) \o <<HexDigit(v % 16)>>

Format02x(v) ==
    IF v < 0 THEN <<"-">> \o HexStr(-v)
    ELSE IF v < 16 THEN <<"0", HexDigit(v)>>
    ELSE HexStr(v)

\* f"#{r:02x}{g:02x}{b:02x}"
HexColor(r, g, b) == <<"#">> \o Format02x(r) \o Format02x(g) \o Format02x(b)

\* _color_256 with the grey ramp's step wrong (a plausible slip: 8 + (n - 232) * 8)
color_256_GreyStep(n) ==
    IF 0 <= n /\ n <= 15 THEN COLOR_256_NAMES[n + 1]
    ELSE IF 16 <= n /\ n <= 231
    THEN LET m == n - 16
         IN  HexColor((m \div 36) * 51, ((m % 36) \div 6) * 51, (m % 6) * 51)
    ELSE IF 232 <= n /\ n <= 255
    THEN LET v == 8 + (n - 232) * 8 IN HexColor(v, v, v)
    ELSE white

color_256(n) ==
    IF 0 <= n /\ n <= 15 THEN COLOR_256_NAMES[n + 1]
    ELSE IF 16 <= n /\ n <= 231
    THEN LET m == n - 16
             r == (m \div 36) * 51
             g == ((m % 36) \div 6) * 51
             b == (m % 6) * 51
         IN  HexColor(r, g, b)
    ELSE IF 232 <= n /\ n <= 255
    THEN LET v == 8 + (n - 232) * 10 IN HexColor(v, v, v)
    ELSE white

(***************************************************************************)
(* class _State (ansi_parser.py lines 54-99).                              *)
(***************************************************************************)

\* _State.__init__, lines 57-64
NewState ==
    [fg |-> None, bg |-> None, bold |-> FALSE, dim |-> FALSE,
     italic |-> FALSE, underline |-> FALSE, reverse |-> FALSE]

\* reset clearing the two colors only
reset_ColorsOnly(state) == [state EXCEPT !.fg = None, !.bg = None]

\* _State.reset, lines 66-73
reset(state) == NewState

\* Python's truth value of a str-or-None (None and "" are false)
Truthy(c) == c # None /\ c # <<>>

\* lines 78-86 with the two defaults left out: fg and bg are only swapped
RunColors_NoDefault(state) ==
    IF state.reverse
    THEN [fg |-> state.bg, bg |-> state.fg]
    ELSE [fg |-> state.fg, bg |-> state.bg]

\* lines 78-86 of to_run: the colors of the run, swapped under reverse video,
\* a color missing after the swap replaced by its sentinel
RunColors(state) ==
    IF state.reverse
    THEN [fg |-> IF state.bg = None THEN defBg ELSE state.bg,
          bg |-> IF state.fg = None THEN defFg ELSE state.fg]
    ELSE [fg |-> state.fg, bg |-> state.bg]

\* lines 91-98 with dim written under the key of bold
RunFlags_DimAsBold(state) ==
    (IF state.bold THEN {"b"} ELSE {})
    \cup (IF state.dim THEN {"b"} ELSE {})
    \cup (IF state.italic THEN {"i"} ELSE {})
    \cup (IF state.underline THEN {"u"} ELSE {})

\* lines 91-98 of to_run: the flag keys of the run, one per flag that is set
RunFlags(state) ==
    (IF state.bold THEN {"b"} ELSE {})
    \cup (IF state.dim THEN {"d"} ELSE {})
    \cup (IF state.italic THEN {"i"} ELSE {})
    \cup (IF state.underline THEN {"u"} ELSE {})

\* _State.to_run: a run is a function from the keys it carries
to_run(state, text) ==
    LET c == RunColors(state)
        keys == {"t"}
                \cup (IF Truthy(c.fg) THEN {"fg"} ELSE {})
                \cup (IF Truthy(c.bg) THEN {"bg"} ELSE {})
                \cup RunFlags(state)
    IN  [k \in keys |->
            CASE k = "t" -> text
              [] k = "fg" -> c.fg
              [] k = "bg" -> c.bg
              [] OTHER -> TRUE]

(***************************************************************************)
(* _apply_sgr (ansi_parser.py lines 102-152).  A parameter list is indexed *)
(* from 1 here: position j is the source's i + 1.                          *)
(***************************************************************************)

\* the extended forms setting the color without the i += 2 / i += 4
Extended_NoSkip(state, params, j) ==
    IF j + 1 <= Len(params) /\ params[j + 1] = 5 /\ j + 2 <= Len(params)
    THEN [set |-> TRUE, color |-> color_256(params[j + 2]), skip |-> 0]
    ELSE IF j + 1 <= Len(params) /\ params[j + 1] = 2 /\ j + 4 <= Len(params)
    THEN [set |-> TRUE,
          color |-> HexColor(params[j + 2], params[j + 3], params[j + 4]),
          skip |-> 0]
    ELSE [set |-> FALSE, color |-> None, skip |-> 0]

\* the extended form at position j for code 38 or 48: the color it sets and
\* the number of extra parameters it consumes (lines 137-143, 145-151)
Extended(state, params, j) ==
    IF j + 1 <= Len(params) /\ params[j + 1] = 5 /\ j + 2 <= Len(params)
    THEN [set |-> TRUE, color |-> color_256(params[j + 2]), skip |-> 2]
    ELSE IF j + 1 <= Len(params) /\ params[j + 1] = 2 /\ j + 4 <= Len(params)
    THEN [set |-> TRUE,
          color |-> HexColor(params[j + 2], params[j + 3], params[j + 4]),
          skip |-> 4]
    ELSE [set |-> FALSE, color |-> None, skip |-> 0]

\* code 22 clearing bold only
Clear22_BoldOnly(state) == [state EXCEPT !.bold = FALSE]

\* lines 117-119: code 22
Clear22(state) == [state EXCEPT !.bold = FALSE, !.dim = FALSE]

\* a code outside the table taken as a reset
IgnoreCode_Reset(state) == reset(state)

\* lines 107-152: a code that no branch of the if/elif chain names falls
\* through to line 152 with the state as it was
IgnoreCode(state) == state

\* one iteration of the while loop, lines 106-152: the state and the next position
SgrStep(state, params, j) ==
    LET p == params[j]
    IN  IF p = 0 THEN [st |-> reset(state), j |-> j + 1]
        ELSE IF p = 1 THEN [st |-> [state EXCEPT !.bold = TRUE], j |-> j + 1]
        ELSE IF p = 2 THEN [st |-> [state EXCEPT !.dim = TRUE], j |-> j + 1]
        ELSE IF p = 3 THEN [st |-> [state EXCEPT !.italic = TRUE], j |-> j + 1]
        ELSE IF p = 4 THEN [st |-> [state EXCEPT !.underline = TRUE], j |-> j + 1]
        ELSE IF p = 22 THEN [st |-> Clear22(state), j |-> j + 1]
        ELSE IF p = 23 THEN [st |-> [state EXCEPT !.italic = FALSE], j |-> j + 1]
        ELSE IF p = 7 THEN [st |-> [state EXCEPT !.reverse = TRUE], j |-> j + 1]
        ELSE IF p = 24 THEN [st |-> [state EXCEPT !.underline = FALSE], j |-> j + 1]
        ELSE IF p = 27 THEN [st |-> [state EXCEPT !.reverse = FALSE], j |-> j + 1]
        ELSE IF p = 39 THEN [st |-> [state EXCEPT !.fg = None], j |-> j + 1]
        ELSE IF p = 49 THEN [st |-> [state EXCEPT !.bg = None], j |-> j + 1]
        ELSE IF p \in DOMAIN BASIC_FG
        THEN [st |-> [state EXCEPT !.fg = BASIC_FG[p]], j |-> j + 1]
        ELSE IF p \in DOMAIN BASIC_BG
        THEN [st |-> [state EXCEPT !.bg = BASIC_BG[p]], j |-> j + 1]
        ELSE IF p = 38
        THEN LET x == Extended(state, params, j)
             IN  [st |-> IF x.set THEN [state EXCEPT !.fg = x.color] ELSE state,
                  j |-> j + x.skip + 1]
        ELSE IF p = 48
        THEN LET x == Extended(state, params, j)
             IN  [st |-> IF x.set THEN [state EXCEPT !.bg = x.color] ELSE state,
                  j |-> j + x.skip + 1]
        ELSE [st |-> IgnoreCode(state), j |-> j + 1]

\* the while loop from position j
RECURSIVE SgrLoop(_, _, _)
SgrLoop(state, params, j) ==
    IF j > Len(params) THEN state
    ELSE LET n == SgrStep(state, params, j)
         IN  SgrLoop(n.st, params, n.j)

apply_sgr(state, params) == SgrLoop(state, params, 1)

(***************************************************************************)
(* parse_line (ansi_parser.py lines 155-178).                              *)
(***************************************************************************)

\* int(s) on a str over this model's characters: a non-empty run of decimal
\* digits is its value, anything else raises ValueError
RECURSIVE DecVal(_, _)
DecVal(s, n) ==
    IF n = 0 THEN 0 ELSE DecVal(s, n - 1) * 10 + DigitVal(s[n])

int(s) ==
    IF Len(s) > 0 /\ \A k \in 1..Len(s) : s[k] \in Digits
    THEN [raised |-> FALSE, val |-> DecVal(s, Len(s))]
    ELSE [raised |-> TRUE, val |-> 0]

\* lines 171-174 without the except clause: the ValueError propagates
ParamOf_NoExcept(s) == int(s)

\* lines 171-174: try: int(s) / except ValueError: 0
ParamOf(s) ==
    IF int(s).raised THEN [raised |-> FALSE, val |-> 0] ELSE int(s)

\* token[2:-1]
ParamStr(token) == SubSeq(token, 3, Len(token) - 1)

\* lines 168-174: the parameter list of a token that starts with ESC [
ParamsOf(token) ==
    LET pieces == StrSplit(ParamStr(token), ";")
    IN  [raised |-> \E k \in 1..Len(pieces) : ParamOf(pieces[k]).raised,
         params |-> [k \in 1..Len(pieces) |-> ParamOf(pieces[k]).val]]

\* the for loop of lines 164-177 from token k.  acc holds the runs so far, the
\* state, whether an exception left the loop, and two records of what was done:
\* for each run the index of the token it came from, and the indexes of the
\* tokens handed to _apply_sgr
RECURSIVE TokenLoop(_, _, _)
TokenLoop(tokens, k, acc) ==
    IF k > Len(tokens) \/ acc.raised THEN acc
    ELSE LET token == tokens[k]
         IN  IF token = <<>> THEN TokenLoop(tokens, k + 1, acc)
             ELSE IF StartsWithCsi(token)
             THEN LET ps == ParamsOf(token)
                  IN  IF ps.raised
                      THEN [acc EXCEPT !.raised = TRUE]
                      ELSE TokenLoop(tokens, k + 1,
                               [acc EXCEPT !.st = apply_sgr(acc.st, ps.params),
                                           !.sgr = Append(@, k)])
             ELSE TokenLoop(tokens, k + 1,
                      [acc EXCEPT !.runs = Append(@, to_run(acc.st, token)),
                                  !.from = Append(@, k)])

\* parse_line: the cleaned line, its tokens and the result of the loop
parse_line(line, state) ==
    LET clean  == STRIP_RE_sub(line)
        tokens == ESC_RE_split(clean)
        out    == TokenLoop(tokens, 1,
                      [runs |-> <<>>, st |-> state, raised |-> FALSE,
                       from |-> <<>>, sgr |-> <<>>])
    IN  [runs |-> out.runs, st |-> out.st, raised |-> out.raised,
         clean |-> clean, from |-> out.from, sgr |-> out.sgr]

(***************************************************************************)
(* State.                                                                  *)
(*   parse_lines: raw (the argument), lines (raw.split), st (the _State),  *)
(*     result; cleaned, runFrom and sgrAt record, per line parsed, the     *)
(*     cleaned line, the token each run came from and the tokens applied   *)
(*     as SGR.                                                             *)
(*   _apply_sgr / to_run alone: st0 (the state at the call), params, pj    *)
(*     (the loop position), emitted (the runs built after the call).       *)
(*   _color_256 alone: index (the argument), color (the value returned).   *)
(*   two parse_lines calls in flight: calls, per call its argument, its    *)
(*     position and its locals (lines, st, result).                        *)
(*   send_keys / _validate_target: sendArgs (text, special, target),       *)
(*     sendOutcome (how send_keys ended), tmuxRuns (the argument lists     *)
(*     handed to _run, in order), targetResult (what _validate_target,     *)
(*     called on the target alone, gave).                                  *)
(*   notify_event.py: clock (the time), queueFile and stateFile (the two   *)
(*     files), inv (the run of the script in progress: its position, its   *)
(*     arguments, its now, its queue, its number), started (the runs so    *)
(*     far); posts logs every webhook post and decided the notifications   *)
(*     that reached the direct post.                                       *)
(*     Overlapping runs of the script are procs, one run record each.      *)
(*   main.py: limiter (the _RateLimiter of /send-keys: its timestamps, the *)
(*     monotonic time, the answer to the last request).                    *)
(*   switch_window: tmuxServer (the session, its windows and the active    *)
(*     one), switch (the call in progress).                                *)
(*   pc is the position of whichever of these is running.                  *)
(***************************************************************************)
VARIABLES raw, pc, lines, st, result, cleaned, runFrom, sgrAt,
          st0, params, pj, emitted, index, color, calls,
          sendArgs, sendOutcome, tmuxRuns, targetResult,
          clock, queueFile, stateFile, inv, started, posts, decided,
          procs, limiter, tmuxServer, switch

vars == <<raw, pc, lines, st, result, cleaned, runFrom, sgrAt,
          st0, params, pj, emitted, index, color, calls,
          sendArgs, sendOutcome, tmuxRuns, targetResult,
          clock, queueFile, stateFile, inv, started, posts, decided,
          procs, limiter, tmuxServer, switch>>

parserVars == <<raw, lines, result, cleaned, runFrom, sgrAt>>
sgrVars    == <<st0, params, pj, emitted>>
colorVars  == <<index, color>>
callVars   == <<calls>>
tmuxVars   == <<sendArgs, sendOutcome, tmuxRuns, targetResult>>
notifyVars == <<clock, queueFile, stateFile, inv, started, posts, decided>>
raceVars   == <<procs>>
limiterVars == <<limiter>>
switchVars == <<tmuxServer, switch>>

ParserIdle == raw = <<>> /\ lines = <<>> /\ result = <<>> /\ cleaned = <<>>
              /\ runFrom = <<>> /\ sgrAt = <<>>
SgrIdle    == st0 = NewState /\ params = <<>> /\ pj = 1 /\ emitted = <<>>
ColorIdle  == index = 0 /\ color = None
CallsIdle  == calls = <<>>
TmuxIdle   == sendArgs = <<>> /\ sendOutcome = "idle" /\ tmuxRuns = <<>>
              /\ targetResult = <<>>
NotifyIdle == clock = 0 /\ queueFile = <<>> /\ stateFile = <<>> /\ inv = <<>>
              /\ started = 0 /\ posts = <<>> /\ decided = {}
RaceIdle   == procs = <<>>
LimiterIdle == limiter = <<>>
SwitchIdle == tmuxServer = <<>> /\ switch = <<>>

\* what each part leaves alone, and where it stands while another part runs
outsideParser == <<sgrVars, colorVars, callVars, tmuxVars, notifyVars,
                  raceVars, limiterVars, switchVars>>
outsideSgr    == <<parserVars, colorVars, callVars, tmuxVars, notifyVars,
                  raceVars, limiterVars, switchVars>>
outsideColor  == <<parserVars, sgrVars, callVars, tmuxVars, notifyVars,
                  raceVars, limiterVars, switchVars>>
outsideCalls  == <<parserVars, sgrVars, colorVars, tmuxVars, notifyVars,
                  raceVars, limiterVars, switchVars>>
outsideTmux   == <<parserVars, sgrVars, colorVars, callVars, notifyVars,
                  raceVars, limiterVars, switchVars>>
outsideNotify == <<parserVars, sgrVars, colorVars, callVars, tmuxVars,
                  raceVars, limiterVars, switchVars>>

OutsideParserIdle == SgrIdle /\ ColorIdle /\ CallsIdle /\ TmuxIdle /\ NotifyIdle
                     /\ RaceIdle /\ LimiterIdle /\ SwitchIdle
OutsideSgrIdle    == ParserIdle /\ ColorIdle /\ CallsIdle /\ TmuxIdle /\ NotifyIdle
                     /\ RaceIdle /\ LimiterIdle /\ SwitchIdle
OutsideColorIdle  == ParserIdle /\ SgrIdle /\ CallsIdle /\ TmuxIdle /\ NotifyIdle
                     /\ RaceIdle /\ LimiterIdle /\ SwitchIdle
OutsideCallsIdle  == ParserIdle /\ SgrIdle /\ ColorIdle /\ TmuxIdle /\ NotifyIdle
                     /\ RaceIdle /\ LimiterIdle /\ SwitchIdle
OutsideTmuxIdle   == ParserIdle /\ SgrIdle /\ ColorIdle /\ CallsIdle /\ NotifyIdle
                     /\ RaceIdle /\ LimiterIdle /\ SwitchIdle
OutsideNotifyIdle == ParserIdle /\ SgrIdle /\ ColorIdle /\ CallsIdle /\ TmuxIdle
                     /\ RaceIdle /\ LimiterIdle /\ SwitchIdle

(***************************************************************************)
(* parse_lines (ansi_parser.py lines 181-190) on captures built from at    *)
(* most MaxPieces pieces: single characters and whole sequences.           *)
(***************************************************************************)
MaxPieces == 4

SgrBoldGreen == <<ESC, "[", "1", ";", "3", "2", "m">>
CsiIntro     == <<ESC, "[">>
CursorDown   == <<ESC, "[", "B">>
OscTitle     == <<ESC, "]", "0", ";", "t", BEL>>
CharsetB     == <<ESC, "(", "B">>

Pieces ==
    { <<"x">>, <<LF>>, <<ESC>>, <<"m">>, <<"B">>, <<";">>,
      SgrBoldGreen, CsiIntro, CursorDown, OscTitle, CharsetB }

RECURSIVE Flatten(_)
Flatten(ss) == IF ss = <<>> THEN <<>> ELSE Head(ss) \o Flatten(Tail(ss))

Captures ==
    { Flatten(ps) : ps \in UNION { [1..n -> Pieces] : n \in 0..MaxPieces } }

Init ==
    /\ raw \in Captures
    /\ pc = "start"
    /\ lines = <<>> /\ st = NewState /\ result = <<>>
    /\ cleaned = <<>> /\ runFrom = <<>> /\ sgrAt = <<>>
    /\ OutsideParserIdle

\* lines 186-188: state = _State(), result = [], raw.split("\n")
ParseLinesBegin ==
    /\ pc = "start"
    /\ lines' = StrSplit(raw, LF)
    /\ st' = NewState
    /\ result' = <<>>
    /\ pc' = "loop"
    /\ UNCHANGED <<raw, cleaned, runFrom, sgrAt, outsideParser>>

\* line 189: result.append(parse_line(line, state)) for the next line; an
\* exception out of parse_line ends the call
ParseLineCall ==
    /\ pc = "loop"
    /\ Len(result) < Len(lines)
    /\ LET r == parse_line(lines[Len(result) + 1], st)
       IN  IF r.raised
           THEN /\ pc' = "raised"
                /\ UNCHANGED <<st, result, cleaned, runFrom, sgrAt>>
           ELSE /\ pc' = "loop"
                /\ st' = r.st
                /\ result' = Append(result, r.runs)
                /\ cleaned' = Append(cleaned, r.clean)
                /\ runFrom' = Append(runFrom, r.from)
                /\ sgrAt' = Append(sgrAt, r.sgr)
    /\ UNCHANGED <<raw, lines, outsideParser>>

\* line 190: return result
ParseLinesReturn ==
    /\ pc = "loop"
    /\ Len(result) = Len(lines)
    /\ pc' = "done"
    /\ UNCHANGED <<parserVars, st, outsideParser>>

Next == ParseLinesBegin \/ ParseLineCall \/ ParseLinesReturn

Spec == Init /\ [][Next]_vars

(***************************************************************************)
(* _apply_sgr and to_run on their own: the state at the call is the one a  *)
(* set-up SGR sequence leaves, the parameter list is drawn from SgrInputs, *)
(* the loop runs one iteration per step, and a run is built at its end.    *)
(***************************************************************************)
MaxParams == 3

\* every code of the table, and codes outside it
TableCodes ==
    {0, 1, 2, 3, 4, 7, 22, 23, 24, 27, 39, 49}
    \cup DOMAIN BASIC_FG \cup DOMAIN BASIC_BG
UnknownCodes == {5, 8, 9, 21, 108}

\* the codes that lists of several parameters are built from
SeqCodes == {0, 1, 2, 7, 22, 27, 31, 39, 44, 49, 5, 38}

\* complete and partial extended forms, alone and followed by a code
ExtendedInputs ==
    LET Forms ==
            { <<5, n>> : n \in {0, 1, 15, 16, 196, 231, 232, 255, 256} }
            \cup { <<2, 255, 0, 0>>, <<2, 0, 0, 0>>, <<2, 1, 3, 4>>,
                   <<2, 18, 52, 86>>, <<2, 256, 0, 0>> }
            \cup { <<>>, <<5>>, <<2>>, <<2, 1>>, <<2, 1, 4>>, <<9>> }
    IN  { <<c>> \o f \o t : c \in {38, 48}, f \in Forms, t \in {<<>>, <<1>>, <<0>>} }

SgrInputs ==
    { <<c>> : c \in TableCodes \cup UnknownCodes }
    \cup UNION { [1..n -> SeqCodes] : n \in 1..MaxParams }
    \cup ExtendedInputs

\* the SGR sequences that set up the state at the call
Setups == { <<>>, <<7>>, <<1, 32>>, <<31, 7>>, <<1, 2, 3, 4, 7, 35, 44>> }

Texts == { <<"x">>, <<"a", "b">> }

InitSgr ==
    /\ st0 \in { apply_sgr(NewState, s) : s \in Setups }
    /\ st = st0
    /\ params \in SgrInputs
    /\ pj = 1
    /\ emitted = <<>>
    /\ pc = "sgr"
    /\ OutsideSgrIdle

\* one iteration of the while loop of _apply_sgr
SgrIterate ==
    /\ pc = "sgr"
    /\ pj <= Len(params)
    /\ LET n == SgrStep(st, params, pj)
       IN  st' = n.st /\ pj' = n.j
    /\ UNCHANGED <<pc, st0, params, emitted, outsideSgr>>

\* the loop is over; the next literal token is encoded: state.to_run(token)
SgrEmit ==
    /\ pc = "sgr"
    /\ pj > Len(params)
    /\ \E text \in Texts : emitted' = Append(emitted, to_run(st, text))
    /\ pc' = "run"
    /\ UNCHANGED <<st, st0, params, pj, outsideSgr>>

NextSgr == SgrIterate \/ SgrEmit

SpecSgr == InitSgr /\ [][NextSgr]_vars

(***************************************************************************)
(* _color_256 on its own, on the palette indexes and PaletteSlack integers *)
(* on either side of them.                                                 *)
(***************************************************************************)
PaletteSlack == 4

InitColor ==
    /\ index \in (0 - PaletteSlack)..(255 + PaletteSlack)
    /\ color = None
    /\ pc = "color"
    /\ st = NewState
    /\ OutsideColorIdle

Resolve ==
    /\ pc = "color"
    /\ color' = color_256(index)
    /\ pc' = "resolved"
    /\ UNCHANGED <<index, st, outsideColor>>

NextColor == Resolve

SpecColor == InitColor /\ [][NextColor]_vars

(***************************************************************************)
(* Two parse_lines calls in flight at once (ansi_parser.py lines 181-190): *)
(* each call has its own argument and its own locals, and the calls take   *)
(* their steps in any order.  The module keeps no mutable state of its     *)
(* own: the regexes and the color tables are only read.                    *)
(***************************************************************************)
MaxCallPieces == 2

Calls == {1, 2}

CallPieces == { <<"x">>, <<LF>>, SgrBoldGreen }

CallCaptures ==
    { Flatten(ps) : ps \in UNION { [1..n -> CallPieces] : n \in 0..MaxCallPieces } }

\* one module-level state used by every call
CallState_Shared(cs, c) == cs[1].st

\* line 186: state is a local of the call, created by that call
CallState(cs, c) == cs[c].st

InitCalls ==
    /\ calls \in [Calls -> { [raw |-> r, pc |-> "start", lines |-> <<>>,
                              st |-> NewState, result |-> <<>>] :
                            r \in CallCaptures }]
    /\ pc = "calls"
    /\ st = NewState
    /\ OutsideCallsIdle

\* lines 186-188 in call c
CallBegin(c) ==
    /\ calls[c].pc = "start"
    /\ calls' = [calls EXCEPT ![c].lines = StrSplit(calls[c].raw, LF),
                              ![c].st = NewState,
                              ![c].result = <<>>,
                              ![c].pc = "loop"]
    /\ UNCHANGED <<pc, st, outsideCalls>>

\* line 189 in call c, for its next line
CallLine(c) ==
    /\ calls[c].pc = "loop"
    /\ Len(calls[c].result) < Len(calls[c].lines)
    /\ LET r == parse_line(calls[c].lines[Len(calls[c].result) + 1],
                           CallState(calls, c))
       IN  calls' = IF r.raised
                    THEN [calls EXCEPT ![c].pc = "raised"]
                    ELSE [calls EXCEPT ![c].st = r.st,
                                       ![c].result = Append(@, r.runs)]
    /\ UNCHANGED <<pc, st, outsideCalls>>

\* line 190 in call c
CallReturn(c) ==
    /\ calls[c].pc = "loop"
    /\ Len(calls[c].result) = Len(calls[c].lines)
    /\ calls' = [calls EXCEPT ![c].pc = "done"]
    /\ UNCHANGED <<pc, st, outsideCalls>>

NextCalls == \E c \in Calls : CallBegin(c) \/ CallLine(c) \/ CallReturn(c)

SpecCalls == InitCalls /\ [][NextCalls]_vars

(***************************************************************************)
(* tmux_bridge.py: _validate_target (lines 9-18) and send_keys (lines      *)
(* 175-219).  An argument list of _run is a sequence of strs.              *)
(***************************************************************************)

\* the character class [a-zA-Z0-9_:.\-%] of _TARGET_RE, line 9
TargetChars ==
    { "a", "b", "c", "d", "e", "f", "g", "h", "i", "j", "k", "l", "m",
      "n", "o", "p", "q", "r", "s", "t", "u", "v", "w", "x", "y", "z",
      "A", "B", "C", "D", "E", "F", "G", "H", "I", "J", "K", "L", "M",
      "N", "O", "P", "Q", "R", "S", "T", "U", "V", "W", "X", "Y", "Z",
      "0", "1", "2", "3", "4", "5", "6", "7", "8", "9",
      "_", ":", ".", "-", "%" }

\* the number of leading characters of s that are in the class
RECURSIVE ClassRun(_, _)
ClassRun(s, i) ==
    IF i <= Len(s) /\ s[i] \in TargetChars THEN ClassRun(s, i + 1) ELSE i - 1

\* _TARGET_RE.match(s), ^[...]+$ : one or more characters of the class from
\* the start, up to a position where $ holds; without re.MULTILINE Python's $
\* holds at the end of the string and just before a line-feed that ends it
TARGET_RE_match(s) ==
    LET n == ClassRun(s, 1)
    IN  /\ n >= 1
        /\ \/ n = Len(s)
           \/ n = Len(s) - 1 /\ s[Len(s)] = LF

\* _validate_target, lines 13-18: the value returned, or ValueError raised
validate_target(target) ==
    IF target = None THEN [raised |-> FALSE, value |-> None]
    ELSE IF ~TARGET_RE_match(target) THEN [raised |-> TRUE, value |-> None]
    ELSE [raised |-> FALSE, value |-> target]

\* lines 175-180
ALLOWED_SPECIAL_KEYS ==
    {
      <<"E", "n", "t", "e", "r">>, <<"E", "s", "c", "a", "p", "e">>, <<"T", "a", "b">>,
      <<"B", "S", "p", "a", "c", "e">>, <<"U", "p">>, <<"D", "o", "w", "n">>,
      <<"L", "e", "f", "t">>, <<"R", "i", "g", "h", "t">>, <<"C", "-", "c">>,
      <<"C", "-", "d">>, <<"C", "-", "z">>, <<"C", "-", "l">>,
      <<"C", "-", "a">>, <<"C", "-", "e">>, <<"C", "-", "r">>,
      <<"C", "-", "u">>, <<"C", "-", "k">>, <<"C", "-", "w">>,
      <<"S", "p", "a", "c", "e">>, <<"H", "o", "m", "e">>, <<"E", "n", "d">>,
      <<"P", "a", "g", "e", "U", "p">>, <<"P", "a", "g", "e", "D", "o", "w", "n">> }

\* line 182
MAX_TEXT_LENGTH == 512

\* the fixed words of the command, lines 206-216
tmuxWord     == <<"t", "m", "u", "x">>
sendKeysWord == <<"s", "e", "n", "d", "-", "k", "e", "y", "s">>
literalFlag  == <<"-", "l">>
targetFlag   == <<"-", "t">>

\* lines 207-208 / 215-216: if target: cmd.extend(["-t", target])
TargetArgs(target) ==
    IF target # None /\ target # <<>> THEN <<targetFlag, target>> ELSE <<>>

\* the text command built without the literal flag
TextCmd_NoLiteralFlag(text, target) ==
    <<tmuxWord, sendKeysWord>> \o TargetArgs(target) \o <<text>>

\* lines 206-209
TextCmd(text, target) ==
    <<tmuxWord, sendKeysWord, literalFlag>> \o TargetArgs(target) \o <<text>>

\* lines 214-217
SpecialCmd(special, target) ==
    <<tmuxWord, sendKeysWord>> \o TargetArgs(target) \o <<special>>

\* send_keys up to the call of _run, lines 196-217: ValueError raised, or the
\* command to run
send_keys(text, special, target) ==
    IF validate_target(target).raised THEN [raised |-> TRUE, cmd |-> <<>>]
    ELSE IF text # None /\ special # None THEN [raised |-> TRUE, cmd |-> <<>>]
    ELSE IF text = None /\ special = None THEN [raised |-> TRUE, cmd |-> <<>>]
    ELSE IF text # None
    THEN IF Len(text) > MAX_TEXT_LENGTH THEN [raised |-> TRUE, cmd |-> <<>>]
         ELSE [raised |-> FALSE, cmd |-> TextCmd(text, target)]
    ELSE IF special \notin ALLOWED_SPECIAL_KEYS THEN [raised |-> TRUE, cmd |-> <<>>]
    ELSE [raised |-> FALSE, cmd |-> SpecialCmd(special, target)]

\* targets: every str of at most MaxTargetLen characters of TargetAlphabet
MaxTargetLen == 2

TargetAlphabet == {"a", "1", ":", "%", " ", ";", LF}

Targets ==
    {None} \cup UNION { [1..n -> TargetAlphabet] : n \in 0..MaxTargetLen }

\* a text of n characters
Xs(n) == [i \in 1..n |-> "x"]

KeyTexts ==
    {None, <<>>, <<"l", "s">>, Xs(MAX_TEXT_LENGTH - 1), Xs(MAX_TEXT_LENGTH),
     Xs(MAX_TEXT_LENGTH + 1)}

KeySpecials ==
    {None, <<>>, <<"F", "1">>, <<"e", "n", "t", "e", "r">>} \cup ALLOWED_SPECIAL_KEYS

InitTmux ==
    /\ sendArgs \in [text : KeyTexts, special : KeySpecials, target : Targets]
    /\ sendOutcome = "pending"
    /\ tmuxRuns = <<>>
    /\ targetResult = <<>>
    /\ pc = "tmux"
    /\ st = NewState
    /\ OutsideTmuxIdle

\* _validate_target called on the target alone
ValidateTarget ==
    /\ pc = "tmux"
    /\ targetResult = <<>>
    /\ targetResult' = << validate_target(sendArgs.target) >>
    /\ UNCHANGED <<pc, st, sendArgs, sendOutcome, tmuxRuns, outsideTmux>>

\* one call of send_keys, lines 185-219: ValueError before any command, or one
\* _run, which returns or raises RuntimeError on a non-zero exit (lines 21-31)
SendKeys ==
    /\ pc = "tmux"
    /\ sendOutcome = "pending"
    /\ LET r == send_keys(sendArgs.text, sendArgs.special, sendArgs.target)
       IN  IF r.raised
           THEN sendOutcome' = "ValueError" /\ UNCHANGED tmuxRuns
           ELSE /\ tmuxRuns' = Append(tmuxRuns, r.cmd)
                /\ \E exit \in {"returned", "RuntimeError"} : sendOutcome' = exit
    /\ UNCHANGED <<pc, st, sendArgs, targetResult, outsideTmux>>

NextTmux == ValidateTarget \/ SendKeys

SpecTmux == InitTmux /\ [][NextTmux]_vars

(***************************************************************************)
(* notify_event.py: one run of the script is main (lines 225-293); the     *)
(* queue file and the state file are what stays between runs.  Times are   *)
(* whole seconds.  A queue item and a logged post carry n, the number of   *)
(* the run that created the notification, to tell notifications apart; the *)
(* code has no such field.  json.dumps / json.loads of the items and of    *)
(* the state give the same values back, so the files hold the values.      *)
(***************************************************************************)

\* lines 20-25
DEFAULT_MIN_SECONDS      == 2
DEFAULT_DEBOUNCE_SECONDS == 12
DEFAULT_DEDUPE_SECONDS   == 120
MAX_QUEUE_ITEMS          == 200
MAX_TITLE_LEN            == 120
MAX_MESSAGE_LEN          == 240

\* line 185: attempts > 20
MAX_ATTEMPTS == 20

Min(a, b) == IF a <= b THEN a ELSE b
Max(a, b) == IF a >= b THEN a ELSE b

\* str.split() with no argument: the words between runs of whitespace
Whitespace == {" ", LF}
RECURSIVE WordsFrom(_, _, _, _)
WordsFrom(s, i, cur, acc) ==
    IF i > Len(s) THEN (IF cur = <<>> THEN acc ELSE Append(acc, cur))
    ELSE IF s[i] \in Whitespace
    THEN WordsFrom(s, i + 1, <<>>, IF cur = <<>> THEN acc ELSE Append(acc, cur))
    ELSE WordsFrom(s, i + 1, Append(cur, s[i]), acc)

\* " ".join(words)
RECURSIVE JoinSpace(_)
JoinSpace(words) ==
    IF words = <<>> THEN <<>>
    ELSE IF Len(words) = 1 THEN words[1]
    ELSE words[1] \o <<" ">> \o JoinSpace(Tail(words))

\* sanitize, lines 84-86
sanitize(text, limit) ==
    LET value == JoinSpace(WordsFrom(text, 1, <<>>, <<>>))
    IN  SubSeq(value, 1, Min(Len(value), limit))

\* str.strip()
RECURSIVE strip(_)
strip(s) ==
    IF s = <<>> THEN s
    ELSE IF s[1] \in Whitespace THEN strip(Tail(s))
    ELSE IF s[Len(s)] \in Whitespace THEN strip(SubSeq(s, 1, Len(s) - 1))
    ELSE s

\* str(int) of a natural number
DecChars == <<"0", "1", "2", "3", "4", "5", "6", "7", "8", "9">>
RECURSIVE Dec(_)
Dec(n) == IF n < 10 THEN <<DecChars[n + 1]>>
          ELSE Dec(n \div 10) \o <<DecChars[(n % 10) + 1]>>

\* line 259: args.event_id.strip() or f"manual-{int(now)}"
EventIdOf(event_id, now) ==
    IF strip(event_id) # <<>> THEN strip(event_id)
    ELSE <<"m", "a", "n", "u", "a", "l", "-">> \o Dec(now)

\* webhook_post, lines 89-106, for the status the webhook answers (0 when the
\* request raises): the pair (ok, status)
webhook_post(status) == [ok |-> status >= 200 /\ status < 300, status |-> status]

RECURSIVE Pow2(_)
Pow2(k) == IF k = 0 THEN 1 ELSE 2 * Pow2(k - 1)

\* the delay without the cap of 300 seconds
next_backoff_seconds_NoCap(attempts) == Pow2(Max(1, attempts))

\* next_backoff_seconds, lines 109-110
next_backoff_seconds(attempts) == Min(300, Pow2(Max(1, attempts)))

\* the rows with nothing discarded
LastItems_KeepAll(rows) == rows

\* rows[-MAX_QUEUE_ITEMS:]
LastItems(rows) ==
    IF Len(rows) <= MAX_QUEUE_ITEMS THEN rows
    ELSE SubSeq(rows, Len(rows) - MAX_QUEUE_ITEMS + 1, Len(rows))

\* write_queue, lines 130-137: the rows the file holds afterwards
write_queue(rows) == LastItems(rows)

\* enqueue, lines 140-159
enqueue(queue, event_id, title, message, attempts, now, n) ==
    LastItems(Append(queue,
        [event_id |-> event_id, title |-> title, message |-> message,
         attempts |-> attempts,
         next_attempt_at |-> now + next_backoff_seconds(attempts),
         created_at |-> now, n |-> n]))

\* every failed post counted as permanent
PermanentFailure_AnyError(status) == status >= 400

\* lines 181 and 291: status in (400, 401, 403)
PermanentFailure(status) == status \in {400, 401, 403}

\* one post as the log keeps it
PostEntry(n, event_id, now, via, attempts, r) ==
    [n |-> n, event_id |-> event_id, at |-> now, via |-> via,
     attempts |-> attempts, ok |-> r.ok, status |-> r.status]

\* the count doubled at every failed retry
NextAttempts_Doubled(item) == item.attempts * 2

\* line 185: int(item.get("attempts", 0) or 0) + 1
NextAttempts(item) == item.attempts + 1

\* the body of the for loop of flush_queue, lines 167-195, for the item at
\* position i; acc is kept and the posts made so far, resp[i] the status the
\* webhook answers if the item is posted
FlushItem(queue, i, acc, resp, now) ==
    LET item == queue[i]
        title == sanitize(item.title, MAX_TITLE_LEN)
        message == sanitize(item.message, MAX_MESSAGE_LEN)
    IN  IF item.next_attempt_at > now
        THEN [kept |-> Append(acc.kept, item), log |-> acc.log]
        ELSE IF title = <<>> \/ message = <<>>
        THEN acc
        ELSE LET r == webhook_post(resp[i])
                 posted == Append(acc.log, PostEntry(item.n, item.event_id, now,
                                                     "retry", item.attempts, r))
                 attempts == NextAttempts(item)
             IN  IF r.ok \/ PermanentFailure(r.status) \/ attempts > MAX_ATTEMPTS
                 THEN [kept |-> acc.kept, log |-> posted]
                 ELSE [kept |-> enqueue(acc.kept, item.event_id, title, message,
                                        attempts, now, item.n),
                       log |-> posted]

\* the for loop of flush_queue, line 166, over the items lo..hi in order,
\* starting from acc: the first half of them, then the second half from
\* what the first half gave.  The result of the first half is bound by a
\* set so that it is a value before the second half begins; a queue of
\* MAX_QUEUE_ITEMS items is then folded at a depth of 8 rather than 200.
RECURSIVE FlushLoop(_, _, _, _, _, _)
FlushLoop(queue, lo, hi, acc, resp, now) ==
    IF lo > hi THEN acc
    ELSE IF lo = hi THEN FlushItem(queue, lo, acc, resp, now)
    ELSE LET mid == (lo + hi) \div 2
         IN  CHOOSE out \in
                 { FlushLoop(queue, mid + 1, hi, first, resp, now) :
                     first \in {FlushLoop(queue, lo, mid, acc, resp, now)} } : TRUE

\* flush_queue, lines 162-196
flush_queue(queue, resp, now) ==
    IF queue = <<>> THEN [kept |-> <<>>, log |-> <<>>]
    ELSE FlushLoop(queue, 1, Len(queue), [kept |-> <<>>, log |-> <<>>], resp, now)

\* events.get(event_id, 0.0) or 0.0, line 272
EventAt(events, event_id) ==
    IF event_id \in DOMAIN events THEN events[event_id] ELSE 0

\* lines 278-285: the state after a successful direct post
SentState(state, event_id, now, dedupe_seconds) ==
    LET cutoff == now - Max(dedupe_seconds * 3, 600)
        all == [k \in DOMAIN state.events \cup {event_id} |->
                    IF k = event_id THEN now ELSE state.events[k]]
        keep == {k \in DOMAIN all : all[k] >= cutoff}
    IN  [last_sent_at |-> now, events |-> [k \in keep |-> all[k]]]

\* lines 262-275: a run without --force stops before the post
Gated(a, state, event_id, now) ==
    /\ ~a.force
    /\ \/ a.duration < DEFAULT_MIN_SECONDS
       \/ now - state.last_sent_at < DEFAULT_DEBOUNCE_SECONDS
       \/ now - EventAt(state.events, event_id) < DEFAULT_DEDUPE_SECONDS

\* read_state with no state file, lines 65-67
NoState == [last_sent_at |-> 0, events |-> <<>>]

\* the runs the model starts: the arguments of the script
MaxInvocations == 2

PlainRun(id) ==
    [event_id |-> id, title |-> <<"T">>, message |-> <<"M">>, duration |-> 5,
     force |-> FALSE, flush_only |-> FALSE, token |-> <<"k">>]

FlushOnlyRun == [PlainRun(<<>>) EXCEPT !.flush_only = TRUE]

RunArgs ==
    { PlainRun(<<"a">>), PlainRun(<<"b">>), PlainRun(<<>>),
      [PlainRun(<<"a">>) EXCEPT !.force = TRUE],
      [PlainRun(<<"a">>) EXCEPT !.title = <<" ">>],
      [PlainRun(<<"a">>) EXCEPT !.duration = 1],
      [PlainRun(<<"a">>) EXCEPT !.token = <<>>],
      FlushOnlyRun }

\* seconds between one run and the next
TimeSteps == {1, 12, 120}

\* what the webhook answers; a request that raises gives status 0, which
\* takes the branches of 500 everywhere
Statuses == {200, 401, 500}

IdleRun == [phase |-> "idle", args |-> FlushOnlyRun, now |-> 0, queue |-> <<>>, n |-> 0]

InitNotify ==
    /\ clock = 1000
    /\ queueFile = <<>>
    /\ stateFile = NoState
    /\ inv = IdleRun
    /\ posts = <<>>
    /\ decided = {}
    /\ started = 0
    /\ pc = "notify"
    /\ st = NewState
    /\ OutsideNotifyIdle

\* the positions of the queue whose item is due at now
Due(queue, now) == {i \in 1..Len(queue) : queue[i].next_attempt_at <= now}

\* the earliest next_attempt_at of a non-empty queue
EarliestDue(queue) ==
    CHOOSE t \in {queue[i].next_attempt_at : i \in 1..Len(queue)} :
        \A i \in 1..Len(queue) : t <= queue[i].next_attempt_at

\* main, lines 226-236: a run begins, with arguments a at time now; without a
\* token it returns at once, else it loads the queue
Begin(a, now) ==
    /\ clock' = now
    /\ inv' = IF strip(a.token) = <<>> THEN IdleRun
              ELSE [phase |-> "loaded", args |-> a, now |-> now,
                    queue |-> queueFile, n |-> started + 1]
    /\ started' = started + 1
    /\ UNCHANGED <<pc, st, queueFile, stateFile, posts, decided, outsideNotify>>

\* a run of the script with any of the arguments, some seconds after the last
NotifyStart ==
    /\ pc = "notify" /\ inv.phase = "idle"
    /\ started < MaxInvocations
    /\ \E a \in RunArgs, d \in TimeSteps : Begin(a, clock + d)

\* the first run of the script, with any of the arguments
NotifyFirstRun ==
    /\ pc = "notify" /\ inv.phase = "idle"
    /\ started = 0
    /\ \E a \in RunArgs, d \in TimeSteps : Begin(a, clock + d)

\* after its first run the script keeps being run with --flush-only while
\* the queue file holds an item, each time when the earliest item is due
NotifyRetryRun ==
    /\ pc = "notify" /\ inv.phase = "idle"
    /\ started >= 1
    /\ queueFile # <<>>
    /\ Begin(FlushOnlyRun, Max(clock + 1, EarliestDue(queueFile)))

\* line 237: queue = flush_queue(url, token, queue, now)
NotifyFlush ==
    /\ pc = "notify" /\ inv.phase = "loaded"
    /\ \E resp \in [Due(inv.queue, inv.now) -> Statuses] :
          LET f == flush_queue(inv.queue, resp, inv.now)
          IN  /\ inv' = [inv EXCEPT !.phase = "flushed", !.queue = f.kept]
              /\ posts' = posts \o f.log
    /\ UNCHANGED <<pc, st, clock, queueFile, stateFile, decided, started, outsideNotify>>

\* lines 239-293: the rest of main
NotifyFinish ==
    /\ pc = "notify" /\ inv.phase = "flushed"
    /\ LET a == inv.args
           now == inv.now
           queue == inv.queue
           title == sanitize(a.title, MAX_TITLE_LEN)
           message == sanitize(a.message, MAX_MESSAGE_LEN)
           event_id == EventIdOf(a.event_id, now)
           state == stateFile
       IN  IF \/ a.flush_only
              \/ title = <<>> \/ message = <<>>
              \/ Gated(a, state, event_id, now)
           THEN /\ queueFile' = write_queue(queue)
                /\ UNCHANGED <<stateFile, posts, decided>>
           ELSE \E status \in Statuses :
                  LET r == webhook_post(status)
                  IN  /\ posts' = Append(posts, PostEntry(inv.n, event_id, now,
                                                          "direct", 0, r))
                      /\ decided' = decided \cup {[n |-> inv.n, force |-> a.force]}
                      /\ IF r.ok
                         THEN /\ stateFile' = SentState(state, event_id, now,
                                                        DEFAULT_DEDUPE_SECONDS)
                              /\ queueFile' = write_queue(queue)
                         ELSE /\ UNCHANGED stateFile
                              /\ queueFile' = write_queue(
                                     IF ~PermanentFailure(r.status)
                                     THEN enqueue(queue, event_id, title, message,
                                                  1, now, inv.n)
                                     ELSE queue)
    /\ inv' = IdleRun
    /\ UNCHANGED <<pc, st, clock, started, outsideNotify>>

\* up to MaxInvocations runs, any arguments, any of the time steps apart
NextNotify == NotifyStart \/ NotifyFlush \/ NotifyFinish

SpecNotify == InitNotify /\ [][NextNotify]_vars

\* one run, then retry runs until the queue is empty.  The script keeps being
\* run (a shell hook, a timer) and a run that has begun goes on to its end:
\* weak fairness of the retry run and of the two steps of a run.
NextRetry == NotifyFirstRun \/ NotifyRetryRun \/ NotifyFlush \/ NotifyFinish

SpecRetry ==
    /\ InitNotify /\ [][NextRetry]_vars
    /\ WF_vars(NotifyRetryRun) /\ WF_vars(NotifyFlush) /\ WF_vars(NotifyFinish)

(***************************************************************************)
(* One run of the script on a queue file left by earlier runs: items that  *)
(* are due and items that are not, with few or many attempts on record,    *)
(* alone or behind enough waiting items to fill the file to                *)
(* MAX_QUEUE_ITEMS.  The items of the file are numbered by position and    *)
(* the run is number MAX_QUEUE_ITEMS + 1.                                  *)
(***************************************************************************)

\* the items of the queue file that the run looks at closely
MaxQueued == 3

\* attempts on record and created_at of such an item; the run takes place at
\* 1001, so the first, third and fourth are due and the second is not
FlushKinds == { <<1, 999>>, <<1, 1000>>, <<8, 745>>, <<20, 701>> }

\* the item enqueue (lines 149-158) made at time kind[2] with kind[1] attempts
QueuedItem(kind, n) ==
    [event_id |-> <<"a">>, title |-> <<"T">>, message |-> <<"M">>,
     attempts |-> kind[1],
     next_attempt_at |-> kind[2] + next_backoff_seconds(kind[1]),
     created_at |-> kind[2], n |-> n]

\* k items queued at 1000 with 9 attempts, due at 1300
Waiting(k) == [i \in 1..k |-> QueuedItem(<<9, 1000>>, i)]

FlushQueues ==
    UNION { { Waiting(k) \o [i \in 1..Len(q) |-> QueuedItem(q[i], k + i)] :
                k \in {0, MAX_QUEUE_ITEMS - Len(q)} } :
            q \in UNION { [1..m -> FlushKinds] : m \in 1..MaxQueued } }

FlushArgs == { FlushOnlyRun, PlainRun(<<"b">>) }

InitFlush ==
    /\ clock = 1000
    /\ queueFile \in FlushQueues
    /\ stateFile = NoState
    /\ inv = IdleRun
    /\ posts = <<>>
    /\ decided = {}
    /\ started = MAX_QUEUE_ITEMS
    /\ pc = "notify"
    /\ st = NewState
    /\ OutsideNotifyIdle

\* the run: with --flush-only, or with a notification of its own
FlushStart ==
    /\ pc = "notify" /\ inv.phase = "idle"
    /\ started = MAX_QUEUE_ITEMS
    /\ \E a \in FlushArgs : Begin(a, clock + 1)

NextFlush == FlushStart \/ NotifyFlush \/ NotifyFinish

SpecFlush == InitFlush /\ [][NextFlush]_vars

(***************************************************************************)
(* Overlapping runs of notify_event.py: the script takes no lock, so two   *)
(* runs (two shells, a hook and a timer) can both be between load_queue    *)
(* (line 236) and write_queue.  Each run has its own record in procs; the  *)
(* queue file, the state file and the clock are shared.                    *)
(***************************************************************************)

\* the runs the model starts when runs may overlap
MaxRaceRuns == 3

Procs == {1, 2}

RaceArgs ==
    { PlainRun(<<"a">>), [PlainRun(<<"b">>) EXCEPT !.force = TRUE], FlushOnlyRun }

\* seconds between the start of one run and the start of the next
RaceSteps == {0, 2}

InitRace ==
    /\ clock = 1000
    /\ queueFile = <<>>
    /\ stateFile = NoState
    /\ inv = IdleRun
    /\ posts = <<>>
    /\ decided = {}
    /\ started = 0
    /\ procs = [p \in Procs |-> IdleRun]
    /\ pc = "race"
    /\ st = NewState
    /\ ParserIdle /\ SgrIdle /\ ColorIdle /\ CallsIdle /\ TmuxIdle
    /\ LimiterIdle /\ SwitchIdle

outsideRace == <<parserVars, sgrVars, colorVars, callVars, tmuxVars,
                 limiterVars, switchVars, inv>>

\* main, lines 226-236, in process p: now is taken, the queue file is read
RaceBegin(p) ==
    /\ pc = "race" /\ procs[p].phase = "idle"
    /\ started < MaxRaceRuns
    /\ \E a \in RaceArgs, d \in RaceSteps :
          /\ clock' = clock + d
          /\ procs' = [procs EXCEPT ![p] =
                          [phase |-> "loaded", args |-> a, now |-> clock + d,
                           queue |-> queueFile, n |-> started + 1]]
    /\ started' = started + 1
    /\ UNCHANGED <<pc, st, queueFile, stateFile, posts, decided, outsideRace>>

\* line 237 in process p
RaceFlush(p) ==
    /\ pc = "race" /\ procs[p].phase = "loaded"
    /\ \E resp \in [Due(procs[p].queue, procs[p].now) -> Statuses] :
          LET f == flush_queue(procs[p].queue, resp, procs[p].now)
          IN  /\ procs' = [procs EXCEPT ![p].phase = "flushed", ![p].queue = f.kept]
              /\ posts' = posts \o f.log
    /\ UNCHANGED <<pc, st, clock, queueFile, stateFile, decided, started, outsideRace>>

\* lines 239-293 for the run r, with the state file read at line 256 holding
\* state and the direct post, if it is made, answered status: the queue and
\* the state the files hold afterwards, the post made, the decision taken
main_rest(r, state, status) ==
    LET a == r.args
        title == sanitize(a.title, MAX_TITLE_LEN)
        message == sanitize(a.message, MAX_MESSAGE_LEN)
        event_id == EventIdOf(a.event_id, r.now)
        resp == webhook_post(status)
    IN  IF \/ a.flush_only
           \/ title = <<>> \/ message = <<>>
           \/ Gated(a, state, event_id, r.now)
        THEN [queue |-> write_queue(r.queue), state |-> state,
              log |-> <<>>, decided |-> {}]
        ELSE [queue |-> write_queue(
                           IF resp.ok \/ PermanentFailure(resp.status)
                           THEN r.queue
                           ELSE enqueue(r.queue, event_id, title, message,
                                        1, r.now, r.n)),
              state |-> IF resp.ok
                        THEN SentState(state, event_id, r.now, DEFAULT_DEDUPE_SECONDS)
                        ELSE state,
              log |-> <<PostEntry(r.n, event_id, r.now, "direct", 0, resp)>>,
              decided |-> {[n |-> r.n, force |-> a.force]}]

\* the rest of main in process p
RaceFinish(p) ==
    /\ pc = "race" /\ procs[p].phase = "flushed"
    /\ \E status \in Statuses :
          LET o == main_rest(procs[p], stateFile, status)
          IN  /\ queueFile' = o.queue
              /\ stateFile' = o.state
              /\ posts' = posts \o o.log
              /\ decided' = decided \cup o.decided
    /\ procs' = [procs EXCEPT ![p] = IdleRun]
    /\ UNCHANGED <<pc, st, clock, started, outsideRace>>

NextRace == \E p \in Procs : RaceBegin(p) \/ RaceFlush(p) \/ RaceFinish(p)

SpecRace == InitRace /\ [][NextRace]_vars

(***************************************************************************)
(* main.py: the /send-keys handler (lines 198-210) behind its rate limiter *)
(* (lines 180-192).  limiter holds the _RateLimiter object (max,           *)
(* timestamps), the monotonic clock mono, the status of the answer to the  *)
(* last request, and accepted, the times of the calls check() let through  *)
(* during the last second, kept apart from the object's own list.  Time is *)
(* counted in ticks, TicksPerSecond to the second.  The handler runs on    *)
(* one event loop and check() does not await, so requests pass the limiter *)
(* one at a time.  sendArgs, sendOutcome and tmuxRuns are those of the     *)
(* request being answered.                                                 *)
(***************************************************************************)

\* line 195: _RateLimiter(max_per_sec=20)
max_per_sec == 20

\* the 1.0 of line 189, in ticks
TicksPerSecond == 2

\* the monotonic clock stops here
MaxTicks == 4

\* __init__, lines 183-185
NewLimiter == [max |-> max_per_sec, timestamps |-> <<>>]

\* the times of a list that are less than a second before now
Within(times, now) == SelectSeq(times, LAMBDA t : now - t < TicksPerSecond)

\* the limit reached only above max
AtLimit_OneMore(lim, kept) == Len(kept) > lim.max

\* line 190: len(self._timestamps) >= self._max
AtLimit(lim, kept) == Len(kept) >= lim.max

\* check, lines 187-192, at time now: whether it raises HTTPException(429),
\* and the list it leaves
check(lim, now) ==
    LET kept == Within(lim.timestamps, now)
    IN  IF AtLimit(lim, kept)
        THEN [raised |-> TRUE, timestamps |-> kept]
        ELSE [raised |-> FALSE, timestamps |-> Append(kept, now)]

\* the bodies of the requests: a text, a key that is not allowed, a key with
\* a target that is not valid
SendBodies ==
    { [text |-> <<"l", "s">>, special |-> None, target |-> None],
      [text |-> None, special |-> <<"F", "1">>, target |-> None],
      [text |-> None, special |-> <<"E", "n", "t", "e", "r">>,
       target |-> <<"a", ";">>] }

\* ticks between one request and the next
RequestGaps == {0, 1, TicksPerSecond}

InitLimiter ==
    /\ limiter = [max |-> NewLimiter.max, timestamps |-> NewLimiter.timestamps,
                  mono |-> 0, status |-> 0, accepted |-> <<>>]
    /\ sendArgs = <<>> /\ sendOutcome = "idle" /\ tmuxRuns = <<>>
    /\ targetResult = <<>>
    /\ pc = "limiter"
    /\ st = NewState
    /\ ParserIdle /\ SgrIdle /\ ColorIdle /\ CallsIdle /\ NotifyIdle
    /\ RaceIdle /\ SwitchIdle

\* post_send_keys, lines 198-210, for one request: check() answers 429, or
\* send_keys raises ValueError (400) before any command, or its one _run
\* raises RuntimeError (502) or returns (200)
PostSendKeys ==
    /\ pc = "limiter"
    /\ \E gap \in RequestGaps, body \in SendBodies,
          exit \in {"returned", "RuntimeError"} :
          LET now == limiter.mono + gap
              c == check(limiter, now)
              r == send_keys(body.text, body.special, body.target)
              status == IF c.raised THEN 429
                        ELSE IF r.raised THEN 400
                        ELSE IF exit = "RuntimeError" THEN 502
                        ELSE 200
          IN  /\ now <= MaxTicks
              /\ limiter' = [max |-> limiter.max, timestamps |-> c.timestamps,
                             mono |-> now, status |-> status,
                             accepted |-> IF c.raised
                                          THEN Within(limiter.accepted, now)
                                          ELSE Append(Within(limiter.accepted, now), now)]
              /\ sendArgs' = body
              /\ sendOutcome' = IF c.raised THEN "idle"
                                ELSE IF r.raised THEN "ValueError"
                                ELSE exit
              /\ tmuxRuns' = IF c.raised \/ r.raised THEN <<>> ELSE <<r.cmd>>
    /\ UNCHANGED <<pc, st, targetResult, parserVars, sgrVars, colorVars,
                   callVars, notifyVars, raceVars, switchVars>>

NextLimiter == PostSendKeys

SpecLimiter == InitLimiter /\ [][NextLimiter]_vars

(***************************************************************************)
(* tmux_bridge.py: switch_window (lines 147-172) with get_pane_info (lines *)
(* 55-77) and list_windows (lines 117-144), against a tmux server that     *)
(* holds one session: its name, the indexes of its windows and the active  *)
(* one.  tmux answers the commands in the formats the code asks for, and   *)
(* the code splits the answers again.  The window set does not change      *)
(* during a call.  switch keeps one record per call made so far.           *)
(***************************************************************************)

\* the calls of switch_window the model makes, one after the other
MaxSwitches == 2

displayMessageWord == <<"d", "i", "s", "p", "l", "a", "y", "-", "m", "e", "s", "s", "a", "g", "e">>
listWindowsWord    == <<"l", "i", "s", "t", "-", "w", "i", "n", "d", "o", "w", "s">>
selectWindowWord   == <<"s", "e", "l", "e", "c", "t", "-", "w", "i", "n", "d", "o", "w">>
printFlag          == <<"-", "p">>
formatFlag         == <<"-", "F">>

\* line 58
paneFormat ==
    <<"#", "{", "s", "e", "s", "s", "i", "o", "n", "_", "n", "a", "m", "e", "}", "|", "#", "{", "w", "i", "n", "d", "o", "w", "_", "i", "n", "d", "e", "x", "}", "|">>
    \o <<"#", "{", "w", "i", "n", "d", "o", "w", "_", "n", "a", "m", "e", "}", "|", "#", "{", "p", "a", "n", "e", "_", "i", "d", "}">>

\* line 120
windowFormat ==
    <<"#", "{", "s", "e", "s", "s", "i", "o", "n", "_", "n", "a", "m", "e", "}", "|", "#", "{", "w", "i", "n", "d", "o", "w", "_", "i", "n", "d", "e", "x", "}", "|">>
    \o <<"#", "{", "w", "i", "n", "d", "o", "w", "_", "n", "a", "m", "e", "}", "|", "#", "{", "w", "i", "n", "d", "o", "w", "_", "a", "c", "t", "i", "v", "e", "}">>

\* str.split(sep, maxsplit) for a one-character separator
RECURSIVE SplitMaxFrom(_, _, _, _, _)
SplitMaxFrom(s, sep, i, cur, left) ==
    IF i > Len(s) THEN <<cur>>
    ELSE IF s[i] = sep /\ left > 0
         THEN <<cur>> \o SplitMaxFrom(s, sep, i + 1, <<>>, left - 1)
         ELSE SplitMaxFrom(s, sep, i + 1, Append(cur, s[i]), left)

SplitMax(s, sep, maxsplit) == SplitMaxFrom(s, sep, 1, <<>>, maxsplit)

\* what tmux prints for one window under either format: the session, the
\* index, the window's name and a last field, then a line-feed
TmuxLine(session, idx, last) ==
    session \o <<"|">> \o Dec(idx) \o <<"|", "w", "|">> \o last \o <<LF>>

\* the window a target names on the server: the active window for no
\* target or for the session's name, window i for "session:i"; 0 - 1 when
\* tmux finds nothing by that name
ResolveWindow(server, target) ==
    IF target = None \/ target = <<>> \/ target = server.session
    THEN server.active
    ELSE LET named == {i \in server.windows :
                          target = server.session \o <<":">> \o Dec(i)}
         IN  IF named = {} THEN 0 - 1 ELSE CHOOSE i \in named : TRUE

\* the value get_pane_info returns, or the exception it raises, lines 55-77;
\* ok tells whether tmux itself works
get_pane_info(server, target, ok) ==
    IF validate_target(target).raised
    THEN [raised |-> "ValueError", cmds |-> <<>>]
    ELSE LET cmd == <<tmuxWord, displayMessageWord, printFlag>>
                    \o TargetArgs(target) \o <<paneFormat>>
             w == ResolveWindow(server, target)
         IN  IF ~ok \/ w < 0
             THEN [raised |-> "RuntimeError", cmds |-> <<cmd>>]
             ELSE LET out == strip(TmuxLine(server.session, w, <<"%">> \o Dec(w)))
                      parts == SplitMax(out, "|", 3)
                  IN  IF Len(parts) < 4
                      THEN [raised |-> "RuntimeError", cmds |-> <<cmd>>]
                      ELSE [raised |-> "no", cmds |-> <<cmd>>,
                            session_name |-> parts[1],
                            window_index |-> IF int(parts[2]).raised THEN 0
                                             ELSE int(parts[2]).val,
                            window_name |-> parts[3],
                            pane_id |-> parts[4]]

\* the loop of list_windows, lines 126-143, over the lines from the k-th on
RECURSIVE WindowsFrom(_, _)
WindowsFrom(lns, k) ==
    IF k > Len(lns) THEN <<>>
    ELSE LET parts == SplitMax(lns[k], "|", 3)
         IN  IF lns[k] = <<>> \/ Len(parts) < 4 \/ int(parts[2]).raised
             THEN WindowsFrom(lns, k + 1)
             ELSE <<[session_name |-> parts[1],
                     window_index |-> int(parts[2]).val,
                     window_name |-> parts[3],
                     active |-> parts[4] = <<"1">>]>> \o WindowsFrom(lns, k + 1)

\* tmux's answer to list-windows: one line per window, in the order given
RECURSIVE ListOutput(_, _, _)
ListOutput(server, order, k) ==
    IF k > Len(order) THEN <<>>
    ELSE TmuxLine(server.session, order[k],
                  IF order[k] = server.active THEN <<"1">> ELSE <<"0">>)
         \o ListOutput(server, order, k + 1)

\* list_windows, lines 117-144
list_windows(server, session, order, ok) ==
    IF validate_target(session).raised
    THEN [raised |-> "ValueError", cmds |-> <<>>]
    ELSE LET cmd == <<tmuxWord, listWindowsWord, formatFlag, windowFormat>>
                    \o TargetArgs(session)
         IN  IF ~ok \/ (session # None /\ session # <<>> /\ session # server.session)
             THEN [raised |-> "RuntimeError", cmds |-> <<cmd>>]
             ELSE [raised |-> "no", cmds |-> <<cmd>>,
                   windows |-> WindowsFrom(
                       StrSplit(strip(ListOutput(server, order, 1)), LF), 1)]

\* sorted(windows, key=lambda w: w.window_index), line 161
RECURSIVE Sorted(_)
Sorted(ws) ==
    IF ws = <<>> THEN <<>>
    ELSE LET least == CHOOSE i \in 1..Len(ws) :
                          /\ \A j \in 1..Len(ws) :
                                ws[i].window_index <= ws[j].window_index
                          /\ \A j \in 1..(i - 1) :
                                ws[j].window_index # ws[i].window_index
         IN  <<ws[least]>> \o Sorted(SubSeq(ws, 1, least - 1)
                                     \o SubSeq(ws, least + 1, Len(ws)))

\* ordered_indexes.index(x) with the except clause, lines 163-166, counted
\* from 0
IndexOrZero(indexes, x) ==
    LET at == {i \in 1..Len(indexes) : indexes[i] = x}
    IN  IF at = {} THEN 0
        ELSE (CHOOSE i \in at : \A j \in at : i <= j) - 1

\* switch_window, lines 147-172: the exception raised if any, the tmux
\* commands run, and the window that is active afterwards.  order is the
\* order of tmux's list; failAt, when not 0, is the command at which tmux
\* fails
switch_window(direction, target, server, order, failAt) ==
    IF validate_target(target).raised \/ direction = 0
    THEN [raised |-> "ValueError", cmds |-> <<>>, active |-> server.active]
    ELSE LET current == get_pane_info(server, target, failAt # 1)
         IN  IF current.raised # "no"
             THEN [raised |-> current.raised, cmds |-> current.cmds,
                   active |-> server.active]
             ELSE LET listed == list_windows(server, current.session_name, order,
                                             failAt # 2)
                      cmds2 == current.cmds \o listed.cmds
                  IN  IF listed.raised # "no"
                      THEN [raised |-> listed.raised, cmds |-> cmds2,
                            active |-> server.active]
                      ELSE IF Len(listed.windows) <= 1
                      THEN [raised |-> "ValueError", cmds |-> cmds2,
                            active |-> server.active]
                      ELSE LET ordered == Sorted(listed.windows)
                               ordered_indexes ==
                                   [i \in 1..Len(ordered) |-> ordered[i].window_index]
                               current_pos ==
                                   IndexOrZero(ordered_indexes, current.window_index)
                               step == IF direction > 0 THEN 1 ELSE 0 - 1
                               next_pos == (current_pos + step + Len(ordered_indexes))
                                               % Len(ordered_indexes)
                               next_index == ordered_indexes[next_pos + 1]
                               select == <<tmuxWord, selectWindowWord, targetFlag,
                                           current.session_name \o <<":">>
                                               \o Dec(next_index)>>
                               cmds3 == Append(cmds2, select)
                           IN  IF failAt = 3
                               THEN [raised |-> "RuntimeError", cmds |-> cmds3,
                                     active |-> server.active]
                               ELSE LET moved == [server EXCEPT !.active = next_index]
                                        info == get_pane_info(moved, current.session_name,
                                                              failAt # 4)
                                    IN  [raised |-> info.raised,
                                         cmds |-> cmds3 \o info.cmds,
                                         active |-> next_index]

\* the servers: a session whose name tmux accepts, with some windows, one
\* of them active
SessionNames == { <<"d">>, <<"d", " ", "v">> }

WindowIndexes == {0, 1, 3}

Servers ==
    { [session |-> s, windows |-> ws, active |-> a] :
        s \in SessionNames, ws \in SUBSET WindowIndexes \ {{}}, a \in WindowIndexes }

Directions == {0 - 2, 0, 1, 3}

SwitchTargets == { None, <<"d">>, <<"d", ":", "1">>, <<"a", ";">> }

\* the orders in which tmux may list the windows
Orders(ws) ==
    { o \in [1..Cardinality(ws) -> ws] :
        \A i, j \in 1..Cardinality(ws) : i # j => o[i] # o[j] }

InitSwitch ==
    /\ tmuxServer \in {sv \in Servers : sv.active \in sv.windows}
    /\ switch = <<>>
    /\ pc = "switch"
    /\ st = NewState
    /\ ParserIdle /\ SgrIdle /\ ColorIdle /\ CallsIdle /\ TmuxIdle /\ NotifyIdle
    /\ RaceIdle /\ LimiterIdle

\* one call of switch_window
SwitchWindow ==
    /\ pc = "switch"
    /\ Len(switch) < MaxSwitches
    /\ \E direction \in Directions, target \in SwitchTargets,
          order \in Orders(tmuxServer.windows), failAt \in 0..4 :
          LET r == switch_window(direction, target, tmuxServer, order, failAt)
          IN  /\ switch' = Append(switch,
                     [direction |-> direction, target |-> target,
                      failed |-> failAt # 0, before |-> tmuxServer.active,
                      raised |-> r.raised, cmds |-> r.cmds, after |-> r.active])
              /\ tmuxServer' = [tmuxServer EXCEPT !.active = r.active]
    /\ UNCHANGED <<pc, st, parserVars, sgrVars, colorVars, callVars, tmuxVars,
                   notifyVars, raceVars, limiterVars>>

NextSwitch == SwitchWindow

SpecSwitch == InitSwitch /\ [][NextSwitch]_vars

(***************************************************************************)
(* Properties.                                                             *)
(***************************************************************************)

\* the text of a line's runs, concatenated in order
RECURSIVE TextOf(_)
TextOf(runs) == IF runs = <<>> THEN <<>> ELSE Head(runs)["t"] \o TextOf(Tail(runs))

\* s has sub as a contiguous part / as its end
Contains(s, sub) ==
    \E i \in 1..(Len(s) - Len(sub) + 1) : SubSeq(s, i, i + Len(sub) - 1) = sub
EndsWith(s, sub) ==
    Len(s) >= Len(sub) /\ SubSeq(s, Len(s) - Len(sub) + 1, Len(s)) = sub

\* the state after the SGR sequences of a token list (its _ESC_RE matches: the
\* even positions of the split) that stand before position upto
RECURSIVE AfterSgrBefore(_, _, _, _)
AfterSgrBefore(state, tokens, k, upto) ==
    IF k >= upto \/ k > Len(tokens) THEN state
    ELSE AfterSgrBefore(
             IF k % 2 = 0 THEN apply_sgr(state, ParamsOf(tokens[k]).params) ELSE state,
             tokens, k + 1, upto)

\* the state after every SGR sequence of the cleaned lines 1..l, applied in
\* order from a fresh state
RECURSIVE LineEndState(_)
LineEndState(l) ==
    IF l = 0 THEN NewState
    ELSE LET tokens == ESC_RE_split(cleaned[l])
         IN  AfterSgrBefore(LineEndState(l - 1), tokens, 1, Len(tokens) + 1)

\* C1: the styling of every run is that of the state obtained by applying, in
\* document order, every SGR sequence that precedes the run's text in the
\* capture, on its line or an earlier one, with no reset at a line-feed.
C1_StylingFromPrecedingSgr ==
    \A l \in 1..Len(result) : \A r \in 1..Len(result[l]) :
        result[l][r] =
            to_run(AfterSgrBefore(LineEndState(l - 1), ESC_RE_split(cleaned[l]),
                                  1, runFrom[l][r]),
                   result[l][r]["t"])

\* C2: with reverse false a run's fg/bg are the state's, left out when absent;
\* with reverse true the run's fg is the state's bg and its bg the state's fg,
\* an absent one replaced by its sentinel, so the run has both; a sentinel
\* appears only under reverse with the pre-swap color absent.
C2_ReverseEncoding ==
    \A r \in 1..Len(emitted) :
        LET run == emitted[r]
            has(k) == k \in DOMAIN run
        IN  /\ ~st.reverse =>
                /\ has("fg") <=> st.fg # None
                /\ has("bg") <=> st.bg # None
                /\ has("fg") => run["fg"] = st.fg
                /\ has("bg") => run["bg"] = st.bg
            /\ st.reverse =>
                /\ has("fg") /\ has("bg")
                /\ run["fg"] = (IF st.bg = None THEN defBg ELSE st.bg)
                /\ run["bg"] = (IF st.fg = None THEN defFg ELSE st.fg)
            /\ (has("fg") /\ run["fg"] = defBg) => (st.reverse /\ st.bg = None)
            /\ (has("bg") /\ run["bg"] = defFg) => (st.reverse /\ st.fg = None)
            /\ (has("fg") => run["fg"] # defFg) /\ (has("bg") => run["bg"] # defBg)

\* a run built under reverse video with a foreground and no background
C2_Witness ==
    /\ pc = "run" /\ st.reverse /\ st.fg = red /\ st.bg = None
    /\ emitted[1]["fg"] = defBg /\ emitted[1]["bg"] = red

\* the 16 color names in the order the claims fix: 8 standard, then 8 bright
ClaimNames ==
    << <<"b", "l", "a", "c", "k">>, <<"r", "e", "d">>, <<"g", "r", "e", "e", "n">>,
       <<"y", "e", "l", "l", "o", "w">>, <<"b", "l", "u", "e">>,
       <<"m", "a", "g", "e", "n", "t", "a">>, <<"c", "y", "a", "n">>,
       <<"w", "h", "i", "t", "e">>,
       <<"b", "r", "B", "l", "a", "c", "k">>, <<"b", "r", "R", "e", "d">>,
       <<"b", "r", "G", "r", "e", "e", "n">>, <<"b", "r", "Y", "e", "l", "l", "o", "w">>,
       <<"b", "r", "B", "l", "u", "e">>, <<"b", "r", "M", "a", "g", "e", "n", "t", "a">>,
       <<"b", "r", "C", "y", "a", "n">>, <<"b", "r", "W", "h", "i", "t", "e">> >>

\* the transition table as the claim states it, for one code of the table
TableEffect(s, p) ==
    LET name(k) == ClaimNames[k + 1]
    IN  CASE p = 0 -> [fg |-> None, bg |-> None, bold |-> FALSE, dim |-> FALSE,
                       italic |-> FALSE, underline |-> FALSE, reverse |-> FALSE]
          [] p = 1 -> [s EXCEPT !.bold = TRUE]
          [] p = 2 -> [s EXCEPT !.dim = TRUE]
          [] p = 3 -> [s EXCEPT !.italic = TRUE]
          [] p = 4 -> [s EXCEPT !.underline = TRUE]
          [] p = 7 -> [s EXCEPT !.reverse = TRUE]
          [] p = 22 -> [s EXCEPT !.bold = FALSE, !.dim = FALSE]
          [] p = 23 -> [s EXCEPT !.italic = FALSE]
          [] p = 24 -> [s EXCEPT !.underline = FALSE]
          [] p = 27 -> [s EXCEPT !.reverse = FALSE]
          [] p \in 30..37 -> [s EXCEPT !.fg = name(p - 30)]
          [] p \in 90..97 -> [s EXCEPT !.fg = name(p - 90 + 8)]
          [] p \in 40..47 -> [s EXCEPT !.bg = name(p - 40)]
          [] p \in 100..107 -> [s EXCEPT !.bg = name(p - 100 + 8)]
          [] p = 39 -> [s EXCEPT !.fg = None]
          [] p = 49 -> [s EXCEPT !.bg = None]

RECURSIVE TableFold(_, _, _)
TableFold(s, ps, n) ==
    IF n = 0 THEN s ELSE TableEffect(TableFold(s, ps, n - 1), ps[n])

OnlyTableCodes == \A k \in 1..Len(params) : params[k] \in TableCodes

\* C3: on a list of codes of the table, _apply_sgr has applied, after each
\* iteration, the table's effect of every code so far, in order; and after a
\* list that ends in code 0 the next text gives a run that carries only t.
C3_TransitionTable ==
    OnlyTableCodes =>
        /\ st = TableFold(st0, params, pj - 1)
        /\ (pc = "run" /\ params[Len(params)] = 0) => DOMAIN emitted[1] = {"t"}

\* bold and dim set, then 22 applied
C3_Witness ==
    /\ st0.bold /\ st0.dim /\ st0.italic /\ params = <<22>> /\ pj = 2
    /\ ~st.bold /\ ~st.dim /\ st.italic

\* C4: the cleaned line holds no strippable sequence: stripping it again
\* changes nothing, and no run's text contains a complete strippable sequence.
C4_NoStrippableResidue ==
    \A l \in 1..Len(cleaned) :
        /\ STRIP_RE_sub(cleaned[l]) = cleaned[l]
        /\ \A r \in 1..Len(result[l]) :
               \A i \in 1..Len(result[l][r]["t"]) :
                   STRIP_RE_match(result[l][r]["t"], i) = 0

\* a recognized control sequence (SGR, OSC, cursor/display CSI, charset) of s at
\* position i: its last position, or 0
RecognizedAt(s, i) ==
    IF ESC_RE_match(s, i) > 0 THEN ESC_RE_match(s, i) ELSE STRIP_RE_match(s, i)

\* s with every recognized control sequence deleted, and the SGR sequences of s
RECURSIVE Visible(_, _)
Visible(s, i) ==
    IF i > Len(s) THEN <<>>
    ELSE IF RecognizedAt(s, i) > 0 THEN Visible(s, RecognizedAt(s, i) + 1)
    ELSE <<s[i]>> \o Visible(s, i + 1)

RECURSIVE SgrOf(_, _)
SgrOf(s, i) ==
    IF i > Len(s) THEN <<>>
    ELSE IF ESC_RE_match(s, i) > 0
    THEN <<SubSeq(s, i, ESC_RE_match(s, i))>> \o SgrOf(s, ESC_RE_match(s, i) + 1)
    ELSE IF STRIP_RE_match(s, i) > 0 THEN SgrOf(s, STRIP_RE_match(s, i) + 1)
    ELSE SgrOf(s, i + 1)

\* C5: for every line, the runs' texts concatenated are the line with every
\* recognized control sequence deleted, and the sequences applied to the state
\* are exactly the SGR sequences of the line.
C5_TextPreserved ==
    \A l \in 1..Len(result) :
        /\ TextOf(result[l]) = Visible(lines[l], 1)
        /\ [k \in 1..Len(sgrAt[l]) |-> ESC_RE_split(cleaned[l])[sgrAt[l][k]]]
               = SgrOf(lines[l], 1)

\* ESC [ x m: the claim's example of non-numeric parameter text
BadSgr == <<ESC, "[", "x", "m">>

\* C6 as stated: a line that ends with ESC [ x m leaves the state fully reset,
\* and the sequence's characters are in no run of the line.
C6_NonNumericResets ==
    (Len(result) > 0 /\ EndsWith(lines[Len(result)], BadSgr)) =>
        /\ st = NewState
        /\ ~Contains(TextOf(result[Len(result)]), BadSgr)

\* the length of the tail ESC [ ;* m of s (an SGR sequence every parameter piece
\* of which is empty), or 0
RECURSIVE SemicolonsBefore(_, _)
SemicolonsBefore(s, i) ==
    IF i >= 1 /\ s[i] = ";" THEN 1 + SemicolonsBefore(s, i - 1) ELSE 0

EmptySgrTail(s) ==
    IF Len(s) >= 3 /\ s[Len(s)] = "m"
    THEN LET k == SemicolonsBefore(s, Len(s) - 1)
             a == Len(s) - k - 2
         IN  IF a >= 1 /\ s[a] = ESC /\ s[a + 1] = "[" THEN k + 3 ELSE 0
    ELSE 0

\* C6, amended: an SGR sequence whose parameter pieces are all empty (ESC [ m,
\* ESC [ ; m) acts as parameter 0: parsing a line that ends with one does not
\* raise, leaves the state fully reset, and yields the runs of the line without it.
C6_EmptyParameterResets ==
    [][ (/\ pc = "loop"
         /\ Len(result) < Len(lines)
         /\ EmptySgrTail(lines[Len(result) + 1]) > 0)
        => LET line == lines[Len(result) + 1]
               rest == SubSeq(line, 1, Len(line) - EmptySgrTail(line))
           IN  /\ pc' = "loop"
               /\ st' = NewState
               /\ result' = Append(result, parse_line(rest, st).runs) ]_vars

\* bold green text, then ESC [ m at the end of the line
C6_Witness ==
    /\ lines = <<SgrBoldGreen \o <<"x", ESC, "[", "m">>>>
    /\ Len(result) = 1
    /\ result[1] = <<to_run([NewState EXCEPT !.bold = TRUE, !.fg = green], <<"x">>)>>
    /\ st = NewState

CountLF(s) == Cardinality({i \in 1..Len(s) : s[i] = LF})

\* the n-th line of s: its characters that have n - 1 line-feeds before them
NthLine(s, n) ==
    LET at == {i \in 1..Len(s) :
                  /\ s[i] # LF
                  /\ Cardinality({k \in 1..(i - 1) : s[k] = LF}) = n - 1}
    IN  IF at = {} THEN <<>>
        ELSE SubSeq(s, CHOOSE i \in at : \A k \in at : i <= k,
                       CHOOSE i \in at : \A k \in at : i >= k)

\* C8: the Document has (number of line-feeds) + 1 Lines, in input order; an
\* empty line, and so the empty capture and the line after a final line-feed,
\* is a Line with no Run.
C8_OneLinePerInputLine ==
    pc = "done" =>
        /\ Len(result) = CountLF(raw) + 1
        /\ \A l \in 1..Len(result) :
               /\ cleaned[l] = STRIP_RE_sub(NthLine(raw, l))
               /\ NthLine(raw, l) = <<>> => result[l] = <<>>
        /\ raw = <<>> => result = << <<>> >>
        /\ (raw # <<>> /\ raw[Len(raw)] = LF) => result[Len(result)] = <<>>

\* a capture of text, an empty line and a final line-feed
C8_Witness ==
    /\ pc = "done"
    /\ raw = <<"x", LF, LF>>
    /\ result = << <<to_run(NewState, <<"x">>)>>, <<>>, <<>> >>

\* a 7-character lowercase hex string and its three channels
HexChars == <<"0", "1", "2", "3", "4", "5", "6", "7",
              "8", "9", "a", "b", "c", "d", "e", "f">>
HexCharVal(c) == (CHOOSE d \in 1..16 : HexChars[d] = c) - 1
IsHex7(c) ==
    /\ Len(c) = 7
    /\ c[1] = "#"
    /\ \A k \in 2..7 : \E d \in 1..16 : HexChars[d] = c[k]
Channel(c, k) == 16 * HexCharVal(c[2 * k]) + HexCharVal(c[2 * k + 1])

\* C9: _color_256 maps 0-15 to the named colors in order, 16-231 to the hex of
\* the 6x6x6 cube, 232-255 to the grey ramp and every other integer to white;
\* 196, 232, 255 and 1 give #ff0000, #080808, #eeeeee and red; every channel is
\* within 0..255.
C9_Palette ==
    pc = "resolved" =>
        LET n == index
        IN  /\ n \in 0..15 => color = ClaimNames[n + 1]
            /\ n \in 16..231 =>
                   /\ IsHex7(color)
                   /\ Channel(color, 1) = ((n - 16) \div 36) * 51
                   /\ Channel(color, 2) = (((n - 16) % 36) \div 6) * 51
                   /\ Channel(color, 3) = ((n - 16) % 6) * 51
            /\ n \in 232..255 =>
                   /\ IsHex7(color)
                   /\ \A k \in 1..3 : Channel(color, k) = 8 + (n - 232) * 10
            /\ n \notin 0..255 => color = <<"w", "h", "i", "t", "e">>
            /\ n = 196 => color = <<"#", "f", "f", "0", "0", "0", "0">>
            /\ n = 232 => color = <<"#", "0", "8", "0", "8", "0", "8">>
            /\ n = 255 => color = <<"#", "e", "e", "e", "e", "e", "e">>
            /\ n = 1 => color = <<"r", "e", "d">>
            /\ n \in 16..255 => \A k \in 1..3 : Channel(color, k) \in 0..255

\* the last index of the grey ramp resolved
C9_Witness ==
    pc = "resolved" /\ index = 255 /\ color = <<"#", "e", "e", "e", "e", "e", "e">>

\* C10: every fg and bg of a run is one of the 16 color names, a 7-character
\* lowercase hex string #rrggbb, or one of the two reverse-video sentinels.
C10_ColorValuesWellFormed ==
    \A r \in 1..Len(emitted) :
        \A k \in {"fg", "bg"} \cap DOMAIN emitted[r] :
            LET c == emitted[r][k]
            IN  \/ \E d \in 1..16 : ClaimNames[d] = c
                \/ c \in {<<"_", "d", "e", "f", "B", "g">>, <<"_", "d", "e", "f", "F", "g">>}
                \/ IsHex7(c)

\* C11: every run has t; it has b, d, i, u, with the value true, exactly when
\* bold, dim, italic, underline are true in the state at emission; it has no
\* key other than t, fg, bg, b, d, i, u; and a run emitted while every field
\* of the state is at its default carries only t.
C11_CompactRuns ==
    \A r \in 1..Len(emitted) :
        LET run == emitted[r]
            flag(k, v) == /\ (k \in DOMAIN run) <=> v
                          /\ (k \in DOMAIN run) => run[k] = TRUE
        IN  /\ "t" \in DOMAIN run
            /\ flag("b", st.bold) /\ flag("d", st.dim)
            /\ flag("i", st.italic) /\ flag("u", st.underline)
            /\ DOMAIN run \subseteq {"t", "fg", "bg", "b", "d", "i", "u"}
            /\ ( st = [fg |-> None, bg |-> None, bold |-> FALSE, dim |-> FALSE,
                       italic |-> FALSE, underline |-> FALSE, reverse |-> FALSE]
                 => DOMAIN run = {"t"} )

\* a run built while dim is the only field away from its default
C11_Witness ==
    /\ pc = "run" /\ params = <<2>> /\ st.dim /\ ~st.bold /\ st.fg = None
    /\ DOMAIN emitted[1] = {"t", "d"} /\ emitted[1]["d"] = TRUE

\* the parameters 1..n of ps that are codes of the table, in order
RECURSIVE KnownOf(_, _)
KnownOf(ps, n) ==
    IF n = 0 THEN <<>>
    ELSE IF ps[n] \in TableCodes THEN Append(KnownOf(ps, n - 1), ps[n])
    ELSE KnownOf(ps, n - 1)

NoExtendedCode == \A k \in 1..Len(params) : params[k] \notin {38, 48}

\* C12: a code outside the table changes no field and raises nothing, wherever
\* it stands in the list: after each iteration the state is the one the
\* table's codes so far give, the codes outside the table left out.
C12_UnknownCodesIgnored ==
    NoExtendedCode =>
        LET known == KnownOf(params, pj - 1)
        IN  /\ st = TableFold(st0, known, Len(known))
            /\ pc \in {"sgr", "run"}

\* code 5 between bold and red: both are applied, 5 changes nothing
C12_Witness ==
    /\ params = <<1, 5, 31>> /\ pj = 4 /\ st0 = NewState
    /\ st = [NewState EXCEPT !.bold = TRUE, !.fg = red]

\* the list opens with 38 or 48 followed by an incomplete form: nothing, 5
\* without an index, or 2 with fewer than three components
PartialExtended ==
    /\ Len(params) >= 1 /\ params[1] \in {38, 48}
    /\ \/ Len(params) = 1
       \/ Len(params) = 2 /\ params[2] = 5
       \/ Len(params) \in 2..4 /\ params[2] = 2

\* C18: 38 or 48 followed by an incomplete form leaves the state unchanged,
\* the code and the partial parameters that trail it alike (ESC[38;2m,
\* ESC[38;2;1;4m and ESC[48;5m change no field).
C18_PartialFormsIgnored ==
    PartialExtended => st = st0

\* the list opens with a complete 38/48 form; its length
CompleteIndexed ==
    Len(params) >= 3 /\ params[1] \in {38, 48} /\ params[2] = 5
CompleteRgb ==
    Len(params) >= 5 /\ params[1] \in {38, 48} /\ params[2] = 2
FormLen == IF CompleteIndexed THEN 3 ELSE 5

\* every parameter after the form is a code of the table
RestInTable == \A k \in (FormLen + 1)..Len(params) : params[k] \in TableCodes

\* c is the 7-character hex string of the components r, g, b
IsHexOf(c, r, g, b) ==
    IsHex7(c) /\ Channel(c, 1) = r /\ Channel(c, 2) = g /\ Channel(c, 3) = b

\* C19: a complete form consumes its operands: once 38/48 has been handled
\* the position is past the whole form, the targeted color is the resolver's
\* result or the hex of R, G, B, every other field is as before, and the
\* parameters after the form (codes of the table here) are applied as codes,
\* beginning with the first.
C19_CompleteFormsConsumeOperands ==
    ((CompleteIndexed \/ CompleteRgb) /\ pj > 1 /\ RestInTable) =>
        LET fgForm == params[1] = 38
            got == IF fgForm THEN st0.fg ELSE st0.bg
            after == SgrStep(st0, params, 1).st
            col == IF fgForm THEN after.fg ELSE after.bg
            rest == SubSeq(params, FormLen + 1, Len(params))
        IN  /\ pj > FormLen
            /\ CompleteIndexed => col = color_256(params[3])
            /\ (CompleteRgb /\ \A k \in 3..5 : params[k] \in 0..255) =>
                   IsHexOf(col, params[3], params[4], params[5])
            /\ after = (IF fgForm THEN [st0 EXCEPT !.fg = col]
                                  ELSE [st0 EXCEPT !.bg = col])
            /\ st = TableFold(after, rest, pj - 1 - FormLen)

\* 48;2;1;3;4 on a plain state: the background is #010304, no flag is set
C19_Witness ==
    /\ params = <<48, 2, 1, 3, 4>> /\ pj = 6 /\ st0 = NewState
    /\ st = [NewState EXCEPT !.bg = <<"#", "0", "1", "0", "3", "0", "4">>]

\* parse_lines run alone on the lines lns, after k of them: the state and the
\* lines encoded so far
RECURSIVE Alone(_, _)
Alone(lns, k) ==
    IF k = 0 THEN [st |-> NewState, result |-> <<>>]
    ELSE LET before == Alone(lns, k - 1)
             r == parse_line(lns[k], before.st)
         IN  [st |-> r.st, result |-> Append(before.result, r.runs)]

\* C13: each call starts from a fresh state and its result depends only on
\* its argument: whatever the other call has done, and in whatever order the
\* two take their steps, a call's state and result after each of its lines
\* are those of the same call run alone.
C13_CallsIndependent ==
    \A c \in DOMAIN calls :
        /\ calls[c].pc \in {"start", "loop", "done"}
        /\ calls[c].pc \in {"loop", "done"} =>
               LET lns == StrSplit(calls[c].raw, LF)
                   alone == Alone(lns, Len(calls[c].result))
               IN  /\ calls[c].st = alone.st
                   /\ calls[c].result = alone.result
                   /\ calls[c].pc = "done" => Len(calls[c].result) = Len(lns)

\* call 1 has left bold and green active and is still in flight; call 2 has
\* run meanwhile and its text carries no styling
C13_Witness ==
    /\ pc = "calls"
    /\ calls[1].raw = SgrBoldGreen \o <<LF>> /\ calls[1].pc = "loop"
    /\ Len(calls[1].result) = 1 /\ calls[1].st.bold /\ calls[1].st.fg = green
    /\ calls[2].pc = "done" /\ calls[2].result = << << [t |-> <<"x">>] >> >>

\* a target as the claims describe a valid one: not empty, every character a
\* letter, a digit or one of _ : . - %
ClaimTargetChars ==
    { "a", "b", "c", "d", "e", "f", "g", "h", "i", "j", "k", "l", "m",
      "n", "o", "p", "q", "r", "s", "t", "u", "v", "w", "x", "y", "z",
      "A", "B", "C", "D", "E", "F", "G", "H", "I", "J", "K", "L", "M",
      "N", "O", "P", "Q", "R", "S", "T", "U", "V", "W", "X", "Y", "Z",
      "0", "1", "2", "3", "4", "5", "6", "7", "8", "9",
      "_", ":", ".", "-", "%" }
WellFormedTarget(t) ==
    t # <<>> /\ \A k \in 1..Len(t) : t[k] \in ClaimTargetChars

\* the claims' allow-list of special keys and text limit
ClaimSpecialKeys ==
    { <<"E", "n", "t", "e", "r">>, <<"E", "s", "c", "a", "p", "e">>, <<"T", "a", "b">>,
      <<"B", "S", "p", "a", "c", "e">>, <<"U", "p">>, <<"D", "o", "w", "n">>,
      <<"L", "e", "f", "t">>, <<"R", "i", "g", "h", "t">>, <<"C", "-", "c">>,
      <<"C", "-", "d">>, <<"C", "-", "z">>, <<"C", "-", "l">>,
      <<"C", "-", "a">>, <<"C", "-", "e">>, <<"C", "-", "r">>,
      <<"C", "-", "u">>, <<"C", "-", "k">>, <<"C", "-", "w">>,
      <<"S", "p", "a", "c", "e">>, <<"H", "o", "m", "e">>, <<"E", "n", "d">>,
      <<"P", "a", "g", "e", "U", "p">>, <<"P", "a", "g", "e", "D", "o", "w", "n">> }

\* the cases in which send_keys is to raise ValueError
KeysRejected ==
    LET a == sendArgs
    IN  \/ a.text # None /\ a.special # None
        \/ a.text = None /\ a.special = None
        \/ a.special # None /\ a.special \notin ClaimSpecialKeys
        \/ a.text # None /\ Len(a.text) > 512
        \/ a.target # None /\ ~WellFormedTarget(a.target)

\* C14: once send_keys has ended, in each rejected case it has raised
\* ValueError and run no tmux command, and in every other case (a text of
\* exactly 512 characters, any allow-listed special key) it has run exactly
\* one.
C14_ValidatesBeforeTmux ==
    (pc = "tmux" /\ sendOutcome # "pending") =>
        /\ KeysRejected => (sendOutcome = "ValueError" /\ tmuxRuns = <<>>)
        /\ ~KeysRejected => (sendOutcome # "ValueError" /\ Len(tmuxRuns) = 1)

\* C15: _validate_target gives None for None, an accepted target unchanged,
\* and raises ValueError for every target that is empty or holds a character
\* outside letters, digits and _ : . - %.
C15_TargetCharset ==
    (pc = "tmux" /\ targetResult # <<>>) =>
        LET t == sendArgs.target
            r == targetResult[1]
        IN  /\ t = None => (~r.raised /\ r.value = None)
            /\ (t # None /\ ~r.raised) => r.value = t
            /\ (t # None /\ ~WellFormedTarget(t)) => r.raised
            /\ (t # None /\ WellFormedTarget(t)) => ~r.raised

\* C16: the command of a send_keys call that ran tmux is, for text, tmux
\* send-keys -l, then -t and the target when one is given, then the text; for
\* a special key, tmux send-keys, then -t and the target when one is given,
\* then the key name, and no -l anywhere.
C16_CommandShape ==
    (pc = "tmux" /\ sendOutcome \in {"returned", "RuntimeError"}) =>
        LET a == sendArgs
            opt == IF a.target # None THEN <<targetFlag, a.target>> ELSE <<>>
        IN  /\ Len(tmuxRuns) = 1
            /\ a.text # None =>
                   tmuxRuns[1] = <<tmuxWord, sendKeysWord, literalFlag>> \o opt \o <<a.text>>
            /\ a.text = None =>
                   /\ tmuxRuns[1] = <<tmuxWord, sendKeysWord>> \o opt \o <<a.special>>
                   /\ \A k \in 1..Len(tmuxRuns[1]) : tmuxRuns[1][k] # literalFlag

\* a literal text sent to the window a:
C16_Witness ==
    /\ pc = "tmux" /\ sendOutcome = "returned"
    /\ sendArgs = [text |-> <<"l", "s">>, special |-> None, target |-> <<"a", ":">>]
    /\ tmuxRuns = << << <<"t", "m", "u", "x">>,
                        <<"s", "e", "n", "d", "-", "k", "e", "y", "s">>,
                        <<"-", "l">>, <<"-", "t">>, <<"a", ":">>, <<"l", "s">> >> >>

\* notification n has been posted successfully
Delivered(n) == \E i \in 1..Len(posts) : posts[i].n = n /\ posts[i].ok

\* notification n waits for a retry: it is in the queue the run in progress
\* holds, or in the queue file when no run is in progress
Queued(n) ==
    LET q == IF inv.phase = "idle" THEN queueFile ELSE inv.queue
    IN  \E i \in 1..Len(q) : q[i].n = n

GivenUp(n) ==
    \E i \in 1..Len(posts) :
        /\ posts[i].n = n /\ ~posts[i].ok
        /\ \/ posts[i].status \in {400, 401, 403}
           \/ posts[i].via = "retry" /\ posts[i].attempts >= 20

C20_DedupeAcrossPaths ==
    (pc = "notify" /\ \A d \in decided : ~d.force) =>
        \A i, j \in 1..Len(posts) :
            (i < j /\ posts[i].ok /\ posts[j].ok
                   /\ posts[i].event_id = posts[j].event_id)
                => posts[j].at - posts[i].at >= 120

\* every run of the script is over
RaceQuiet == \A p \in Procs : procs[p].phase = "idle"

\* notification n is in the queue file
InQueueFile(n) == \E i \in 1..Len(queueFile) : queueFile[i].n = n

\* the direct post of notification n failed with an answer other than 400,
\* 401 or 403, so main put it on the queue
WasQueued(n) ==
    \E i \in 1..Len(posts) :
        /\ posts[i].n = n /\ posts[i].via = "direct" /\ ~posts[i].ok
        /\ posts[i].status \notin {400, 401, 403}

\* C21: with runs of the script overlapping on the same queue file, once
\* the runs are over every notification that was queued has been delivered,
\* or deliberately dropped, or is still in the queue file; and no queued
\* item (a notification with a given number of attempts) is posted twice.
C21_NoLossNoDoublePost ==
    pc = "race" =>
        /\ RaceQuiet =>
              \A n \in 1..started :
                  WasQueued(n) => Delivered(n) \/ GivenUp(n) \/ InQueueFile(n)
        /\ \A i, j \in 1..Len(posts) :
              (i < j /\ posts[i].via = "retry" /\ posts[j].via = "retry"
                     /\ posts[i].n = posts[j].n)
                  => posts[i].attempts # posts[j].attempts

\* the posts of notification n, in order
PostsOf(n) == SelectSeq(posts, LAMBDA e : e.n = n)

\* the posts of notification n made from the queue, in order
RetriesOf(n) == SelectSeq(posts, LAMBDA e : e.n = n /\ e.via = "retry")

\* the counting part of C22: the k-th retry of a notification is made with k
\* attempts on record (main queues it with 1, each failed retry adds exactly
\* one); there are at most 20 retries and at most 21 posts in all; after the
\* failure of the 20th retry, after an answer of 400, 401 or 403 and after a
\* success the notification is posted no more and is no longer queued; the
\* items in the queue file have between 1 and 20 attempts on record.
RetryCounts ==
    pc = "notify" =>
        /\ \A n \in 1..started :
              LET all == PostsOf(n)
                  rs == RetriesOf(n)
              IN  /\ \A k \in 1..Len(rs) : rs[k].attempts = k
                  /\ Len(rs) <= 20
                  /\ Len(all) <= 21
                  /\ Len(rs) = 20 => ~Queued(n)
                  /\ \A k \in 1..Len(all) :
                        (all[k].ok \/ all[k].status \in {400, 401, 403})
                            => k = Len(all) /\ ~Queued(n)
        /\ \A i \in 1..Len(queueFile) : queueFile[i].attempts \in 1..20

\* C22: retries are bounded.  The counts above hold at every moment, and,
\* the script being run again whenever an item is due, a notification that
\* is in the queue file eventually leaves the queue for good.
C22_RetriesBounded ==
    /\ []RetryCounts
    /\ InQueueFile(1) ~> [](~Queued(1))

\* notification 1 was posted 21 times, once directly and 20 times from the
\* queue, every post answered 500, and the queue file is empty
C22_Witness ==
    /\ pc = "notify" /\ inv.phase = "idle" /\ queueFile = <<>>
    /\ Len(PostsOf(1)) = 21 /\ Len(RetriesOf(1)) = 20
    /\ \A k \in 1..Len(posts) : posts[k].status = 500

\* a step of flush_queue in the run in progress
FlushStep == pc = "notify" /\ inv.phase = "loaded" /\ inv'.phase = "flushed"

\* min(300, 2^max(1, attempts)) as the claim gives it, by table
ClaimDelay(attempts) ==
    IF attempts <= 1 THEN 2
    ELSE IF attempts >= 9 THEN 300
    ELSE <<2, 4, 8, 16, 32, 64, 128, 256>>[attempts]

\* C23: in every step of flush_queue, each post made is of an item that was
\* due (next_attempt_at <= now); the items that were not due are in the
\* result unchanged and in the same order; every other item of the result
\* was re-enqueued with next_attempt_at = now + min(300, 2^max(1, attempts)),
\* a delay of at least 2 and at most 300 seconds that is not shorter than
\* the delay the item had before.
C23_BackoffRespected ==
    [][FlushStep =>
        LET before == inv.queue
            after == inv'.queue
            now == inv.now
            notDue == {before[i].n : i \in {j \in 1..Len(before) :
                                               before[j].next_attempt_at > now}}
        IN  /\ \A k \in (Len(posts) + 1)..Len(posts') :
                  \E i \in 1..Len(before) :
                      /\ before[i].n = posts'[k].n
                      /\ before[i].next_attempt_at <= now
            /\ SelectSeq(after, LAMBDA it : it.n \in notDue)
                  = SelectSeq(before, LAMBDA it : it.next_attempt_at > now)
            /\ \A j \in 1..Len(after) :
                  after[j].n \notin notDue =>
                      LET delay == after[j].next_attempt_at - now
                      IN  /\ delay = ClaimDelay(after[j].attempts)
                          /\ delay >= 2 /\ delay <= 300
                          /\ \A i \in 1..Len(before) :
                                before[i].n = after[j].n =>
                                    /\ after[j].attempts = before[i].attempts + 1
                                    /\ delay >= before[i].next_attempt_at
                                                 - before[i].created_at
    ]_vars

\* flush_queue has just kept an item that was not due in front of an item
\* it posted without success and re-enqueued with 9 attempts, due 300
\* seconds later
C23_Witness ==
    /\ pc = "notify" /\ inv.phase = "flushed" /\ Len(inv.queue) = 2
    /\ inv.queue[1].next_attempt_at = inv.now + 1
    /\ inv.queue[1].created_at < inv.now
    /\ inv.queue[2].attempts = 9
    /\ inv.queue[2].next_attempt_at = inv.now + 300
    /\ Len(posts) = 1 /\ posts[1].n = inv.queue[2].n /\ ~posts[1].ok

\* the step of main after flush_queue, up to its return
FinishStep == pc = "notify" /\ inv.phase = "flushed" /\ inv'.phase = "idle"

\* C24: the queue file and the queue a run holds never have more than
\* MAX_QUEUE_ITEMS (200) entries; and what main writes is the queue
\* flush_queue returned, followed by the run's own notification when its
\* direct post failed with an answer other than 400, 401 or 403, less as
\* many entries from the front as exceed 200.
C24_QueueBounded ==
    /\ [](pc = "notify" =>
            /\ Len(queueFile) <= 200
            /\ inv.phase # "idle" => Len(inv.queue) <= 200)
    /\ [][FinishStep =>
            LET own == /\ Len(posts') = Len(posts) + 1
                       /\ ~posts'[Len(posts')].ok
                       /\ posts'[Len(posts')].status \notin {400, 401, 403}
                total == Len(inv.queue) + (IF own THEN 1 ELSE 0)
                over == IF total > 200 THEN total - 200 ELSE 0
                rest == SubSeq(inv.queue, over + 1, Len(inv.queue))
            IN  /\ Len(queueFile') = total - over
                /\ IF own
                   THEN /\ queueFile'[Len(queueFile')].n = inv.n
                        /\ SubSeq(queueFile', 1, Len(queueFile') - 1) = rest
                   ELSE queueFile' = rest
       ]_vars

\* the queue held 200 items, none was delivered or dropped, the run's own
\* post failed: the file holds 200 items, the run's notification last, and
\* the item that was first is gone
C24_Witness ==
    /\ pc = "notify" /\ inv.phase = "idle" /\ started = 201
    /\ Len(queueFile) = 200
    /\ queueFile[200].n = 201 /\ queueFile[1].n = 2
    /\ posts # <<>> /\ posts[Len(posts)].via = "direct"
    /\ posts[Len(posts)].status = 500

\* the entries of a list of times that are less than a second before u
LessThanASecondBefore(times, u) ==
    SelectSeq(times, LAMBDA t : u - t < TicksPerSecond)

\* C25: the limiter is a sliding window.  At every moment at most 20 of the
\* calls let through lie within the last second, the stored list holds at
\* most 20 times, and a request answered 429 has not reached send_keys nor
\* tmux; and a call that is rejected adds nothing to the list, which
\* afterwards throttles any later call exactly as it did before.
C25_SlidingWindow ==
    /\ [](pc = "limiter" =>
            /\ Len(limiter.accepted) <= 20
            /\ Len(limiter.timestamps) <= 20
            /\ limiter.status = 429 => sendOutcome = "idle" /\ tmuxRuns = <<>>)
    /\ [][(pc = "limiter" /\ limiter'.status = 429) =>
            /\ limiter'.timestamps
                 = LessThanASecondBefore(limiter.timestamps, limiter'.mono)
            /\ limiter'.accepted
                 = LessThanASecondBefore(limiter.accepted, limiter'.mono)
            /\ \A u \in limiter'.mono..(limiter'.mono + TicksPerSecond) :
                  LessThanASecondBefore(limiter'.timestamps, u)
                    = LessThanASecondBefore(limiter.timestamps, u)
       ]_vars

\* twenty calls were let through at two different times less than a second
\* apart, and the request that followed within the same second was answered
\* 429 without a tmux command
C25_Witness ==
    /\ pc = "limiter" /\ limiter.status = 429
    /\ Len(limiter.timestamps) = 20
    /\ limiter.timestamps[1] < limiter.timestamps[20]
    /\ limiter.mono = limiter.timestamps[20]
    /\ sendArgs.text = <<"l", "s">> /\ tmuxRuns = <<>>

\* the indexes of a set of windows in ascending order
Ascending(ws) ==
    CHOOSE o \in [1..Cardinality(ws) -> ws] :
        \A i, j \in 1..Cardinality(ws) : i < j => o[i] < o[j]

\* the index one step from window w in the cycle of the windows ws: at
\* position (p + 1) mod n forwards, (p - 1) mod n backwards
OneStepFrom(ws, w, direction) ==
    LET n == Cardinality(ws)
        p == (CHOOSE i \in 1..n : Ascending(ws)[i] = w) - 1
        q == IF direction > 0 THEN (p + 1) % n ELSE (p + n - 1) % n
    IN  Ascending(ws)[q + 1]

IsSelectWindow(cmd) == cmd[2] = selectWindowWord

\* the window a recorded call started from: the one its target resolved to
\* when the call began
CurrentWindow(c) ==
    ResolveWindow([tmuxServer EXCEPT !.active = c.before], c.target)

\* C26: every call of switch_window so far did what the claim says.  With
\* direction 0 it raised ValueError and ran no tmux command.  Otherwise,
\* with a well-formed target that names a window of the session and tmux
\* itself working: in a session of at most one window it raised ValueError
\* and ran no select-window; in a session of n >= 2 windows it returned
\* after exactly one select-window, of the window one step forwards
\* (direction > 0) or backwards (direction < 0) from the current window in
\* ascending index order, whatever the magnitude of direction.  And a
\* forward call followed by a backward call, both returning and both
\* starting from the window that was active, leaves the window active that
\* was active before.
C26_OneStepCyclic ==
    pc = "switch" =>
        \A k \in 1..Len(switch) :
            LET c == switch[k]
                ws == tmuxServer.windows
                current == CurrentWindow(c)
                selects == SelectSeq(c.cmds, IsSelectWindow)
            IN  /\ c.direction = 0 => c.raised = "ValueError" /\ c.cmds = <<>>
                /\ (c.direction # 0
                       /\ (c.target = None \/ WellFormedTarget(c.target))
                       /\ current \in ws /\ ~c.failed) =>
                      IF Cardinality(ws) <= 1
                      THEN c.raised = "ValueError" /\ selects = <<>>
                      ELSE /\ c.raised = "no"
                           /\ c.after = OneStepFrom(ws, current, c.direction)
                           /\ selects = << <<tmuxWord, selectWindowWord, targetFlag,
                                             tmuxServer.session \o <<":">>
                                                 \o Dec(c.after)>> >>
                /\ (k < Len(switch) /\ c.direction > 0 /\ switch[k + 1].direction < 0
                       /\ c.raised = "no" /\ switch[k + 1].raised = "no"
                       /\ CurrentWindow(c) = c.before
                       /\ CurrentWindow(switch[k + 1]) = switch[k + 1].before)
                      => switch[k + 1].after = c.before

=============================================================================
